---------------------------- MODULE Spec2Model ----------------------------
(***************************************************************************)
(* Call tracking service of n3wscott/phonebook (package calls): the AMI    *)
(* event state machine, the bounded history store, the presence tracker,   *)
(* the change notifier and the AMI connection manager.                     *)
(*                                                                         *)
(* Go strings are modelled as sequences of one-character strings, so that  *)
(* trimming, lower-casing, splitting and substring search are computed as  *)
(* the code computes them.  time.Time values are integers (ticks of the    *)
(* clock `now`); the zero time.Time is ZeroTime.                           *)
(***************************************************************************)
EXTENDS Integers, Sequences, FiniteSets, TLC

(***************************************************************************)
(* Bounds of the model                                                     *)
(***************************************************************************)
MaxTime == 3
MaxEvents == 3
MaxSubs == 1
MaxRows == 2
MaxLoads == 1
MaxDials == 2
MaxMsgs == 3
MaxSinks == 2
MaxPings == 1
MaxDialLen == 4
MaxBlocks == 5
InboxRoom == 2
\* Options.MaxHistory and Options.Retention (in ticks) of the modelled run,
\* and the offset of time.Local from UTC (in ticks).
MaxHistory == 2
Retention == 1
LocalOffset == 3
ZeroTime == 0

(***************************************************************************)
(* strings                                                                 *)
(***************************************************************************)
Empty == << >>

UpperChars == <<"A","B","C","D","E","F","G","H","I","J","K","L","M",
                "N","O","P","Q","R","S","T","U","V","W","X","Y","Z">>
LowerChars == <<"a","b","c","d","e","f","g","h","i","j","k","l","m",
                "n","o","p","q","r","s","t","u","v","w","x","y","z">>

IsSpace(c) == c \in {" ", "\t", "\r", "\n"}

LowerChar(c) ==
  IF \E i \in 1..26 : UpperChars[i] = c
    THEN LowerChars[CHOOSE i \in 1..26 : UpperChars[i] = c]
    ELSE c

\* strings.ToLower
ToLower(s) == [i \in 1..Len(s) |-> LowerChar(s[i])]

\* strings.EqualFold
EqualFold(a, b) == ToLower(a) = ToLower(b)

MinOf(S) == CHOOSE x \in S : \A y \in S : x <= y
MaxOf(S) == CHOOSE x \in S : \A y \in S : x >= y

\* strings.TrimSpace
TrimSpace(s) ==
  LET keep == {i \in 1..Len(s) : ~IsSpace(s[i])}
  IN  IF keep = {} THEN Empty ELSE SubSeq(s, MinOf(keep), MaxOf(keep))

\* strings.Index for a substring: the first position (1-based) or 0
IndexOf(s, sub) ==
  LET at == {i \in 1..(Len(s) - Len(sub) + 1) : SubSeq(s, i, i + Len(sub) - 1) = sub}
  IN  IF at = {} THEN 0 ELSE MinOf(at)

\* strings.LastIndex for a substring: the last position (1-based) or 0
LastIndexOf(s, sub) ==
  LET at == {i \in 1..(Len(s) - Len(sub) + 1) : SubSeq(s, i, i + Len(sub) - 1) = sub}
  IN  IF at = {} THEN 0 ELSE MaxOf(at)

\* strings.Contains
Contains(s, sub) == sub = Empty \/ IndexOf(s, sub) > 0

\* strings.Split(s, sep)[0] and strings.SplitN(s, sep, 2)[0]
SplitFirst(s, sep) ==
  IF IndexOf(s, sep) = 0 THEN s ELSE SubSeq(s, 1, IndexOf(s, sep) - 1)

\* strings.SplitN(s, sep, 2)[1], for s containing sep
SplitRest(s, sep) == SubSeq(s, IndexOf(s, sep) + Len(sep), Len(s))

\* the last element of strings.Split(s, sep), for s containing sep
SplitLast(s, sep) == SubSeq(s, LastIndexOf(s, sep) + Len(sep), Len(s))

RECURSIVE FilterChars(_, _)
FilterChars(s, keep) ==
  IF s = Empty THEN Empty
  ELSE (IF Head(s) \in keep THEN <<Head(s)>> ELSE Empty) \o FilterChars(Tail(s), keep)

Digits == {"0","1","2","3","4","5","6","7","8","9"}

DigitValue(c) ==
  CASE c = "0" -> 0 [] c = "1" -> 1 [] c = "2" -> 2 [] c = "3" -> 3 [] c = "4" -> 4
    [] c = "5" -> 5 [] c = "6" -> 6 [] c = "7" -> 7 [] c = "8" -> 8 [] c = "9" -> 9

RECURSIVE DigitsValue(_)
DigitsValue(s) ==
  IF s = Empty THEN 0 ELSE 10 * DigitsValue(SubSeq(s, 1, Len(s) - 1)) + DigitValue(s[Len(s)])

\* strconv.Atoi: [ok, n]
Atoi(s) ==
  LET body == IF s # Empty /\ Head(s) \in {"+", "-"} THEN Tail(s) ELSE s
      ok   == body # Empty /\ \A i \in 1..Len(body) : body[i] \in Digits
  IN  [ok |-> ok,
       n  |-> IF ~ok THEN 0
              ELSE IF Head(s) = "-" THEN 0 - DigitsValue(body) ELSE DigitsValue(body)]

(***************************************************************************)
(* Field names, event types and keyword tables of the code                 *)
(***************************************************************************)
EventKeys ==
  << <<"E","v","e","n","t">> >>
CallerIDNumKeys ==
  << <<"C","a","l","l","e","r","I","D","N","u","m">>,
     <<"C","a","l","l","e","r","I","D","n","u","m">> >>
ChannelKeys ==
  << <<"C","h","a","n","n","e","l">> >>
ExtenKeys ==
  << <<"E","x","t","e","n">> >>
ConnectedLineNumKeys ==
  << <<"C","o","n","n","e","c","t","e","d","L","i","n","e","N","u","m">>,
     <<"C","o","n","n","e","c","t","e","d","L","i","n","e","N","u","m">> >>
ChannelStateDescKeys ==
  << <<"C","h","a","n","n","e","l","S","t","a","t","e","D","e","s","c">>,
     <<"C","h","a","n","n","e","l","s","t","a","t","e","d","e","s","c">> >>
SrcChannelKeys ==
  << <<"S","r","c","C","h","a","n","n","e","l">>,
     <<"S","o","u","r","c","e","C","h","a","n","n","e","l">> >>
DialStringKeys ==
  << <<"D","i","a","l","S","t","r","i","n","g">>,
     <<"D","i","a","l","s","t","r","i","n","g">> >>
DestChannelKeys ==
  << <<"D","e","s","t","C","h","a","n","n","e","l">>,
     <<"D","e","s","t","i","n","a","t","i","o","n","C","h","a","n","n","e","l">> >>
SrcUniqueIDKeys ==
  << <<"S","r","c","U","n","i","q","u","e","I","D">>,
     <<"S","r","c","U","n","i","q","u","e","I","d">>,
     <<"S","r","c","U","n","i","q","u","e","i","d">> >>
DestUniqueIDKeys ==
  << <<"D","e","s","t","U","n","i","q","u","e","I","D">>,
     <<"D","e","s","t","U","n","i","q","u","e","I","d">>,
     <<"D","e","s","t","U","n","i","q","u","e","i","d">> >>
SubEventKeys ==
  << <<"S","u","b","E","v","e","n","t">>,
     <<"S","u","b","e","v","e","n","t">> >>
CauseTxtKeys ==
  << <<"C","a","u","s","e","-","t","x","t">> >>
CauseKeys ==
  << <<"C","a","u","s","e">> >>
DialStatusKeys ==
  << <<"D","i","a","l","S","t","a","t","u","s">> >>
LinkedidKeys ==
  << <<"L","i","n","k","e","d","i","d">>,
     <<"L","i","n","k","e","d","I","D">>,
     <<"L","i","n","k","e","d","I","d">> >>
DestLinkedidKeys ==
  << <<"D","e","s","t","L","i","n","k","e","d","i","d">>,
     <<"D","e","s","t","L","i","n","k","e","d","I","D">>,
     <<"D","e","s","t","L","i","n","k","e","d","I","d">> >>
SrcLinkedidKeys ==
  << <<"S","r","c","L","i","n","k","e","d","i","d">>,
     <<"S","r","c","L","i","n","k","e","d","I","D">>,
     <<"S","r","c","L","i","n","k","e","d","I","d">> >>
UniqueidKeys ==
  << <<"U","n","i","q","u","e","i","d">>,
     <<"U","n","i","q","u","e","I","D">>,
     <<"U","n","i","q","u","e","I","d">> >>
DestUniqueidKeys ==
  << <<"D","e","s","t","U","n","i","q","u","e","i","d">>,
     <<"D","e","s","t","U","n","i","q","u","e","I","D">>,
     <<"D","e","s","t","U","n","i","q","u","e","I","d">> >>
SrcUniqueidKeys ==
  << <<"S","r","c","U","n","i","q","u","e","i","d">>,
     <<"S","r","c","U","n","i","q","u","e","I","D">>,
     <<"S","r","c","U","n","i","q","u","e","I","d">> >>
AnyChannelKeys ==
  << <<"C","h","a","n","n","e","l">>,
     <<"D","e","s","t","C","h","a","n","n","e","l">>,
     <<"S","r","c","C","h","a","n","n","e","l">> >>
EndpointNameKeys ==
  << <<"E","n","d","p","o","i","n","t","N","a","m","e">>,
     <<"E","n","d","p","o","i","n","t">>,
     <<"A","O","R">>,
     <<"O","b","j","e","c","t","N","a","m","e">>,
     <<"P","e","e","r">> >>
URIContactKeys ==
  << <<"U","R","I">>,
     <<"C","o","n","t","a","c","t">> >>
DeviceKeys ==
  << <<"D","e","v","i","c","e">> >>
DeviceStateKeys ==
  << <<"D","e","v","i","c","e","S","t","a","t","e">> >>
StatusKeys ==
  << <<"S","t","a","t","u","s">> >>
EndpointStatusKeys ==
  << <<"E","n","d","p","o","i","n","t","S","t","a","t","u","s">> >>
PeerStatusKeys ==
  << <<"P","e","e","r","S","t","a","t","u","s">> >>
StateKeys ==
  << <<"S","t","a","t","e">> >>
ActiveChannelsKeys ==
  << <<"A","c","t","i","v","e","C","h","a","n","n","e","l","s">> >>
URIKeys ==
  << <<"U","R","I">> >>
ContactStatusKeys ==
  << <<"C","o","n","t","a","c","t","S","t","a","t","u","s">> >>

tNewchannel == <<"n","e","w","c","h","a","n","n","e","l">>
tDialbegin == <<"d","i","a","l","b","e","g","i","n">>
tDial == <<"d","i","a","l">>
tNewstate == <<"n","e","w","s","t","a","t","e">>
tBridgeenter == <<"b","r","i","d","g","e","e","n","t","e","r">>
tBridgeleave == <<"b","r","i","d","g","e","l","e","a","v","e">>
tHangup == <<"h","a","n","g","u","p">>
vBegin == <<"b","e","g","i","n">>
vRinging == <<"r","i","n","g","i","n","g">>
vDialing == <<"d","i","a","l","i","n","g">>
vActive == <<"a","c","t","i","v","e">>
vCompleted == <<"c","o","m","p","l","e","t","e","d">>
vError == <<"e","r","r","o","r">>
vNoAnswer == <<"n","o","-","a","n","s","w","e","r">>
vAnswered == <<"a","n","s","w","e","r","e","d">>
vInUse == <<"i","n","-","u","s","e">>
vConnected == <<"c","o","n","n","e","c","t","e","d">>
vDisconnected == <<"d","i","s","c","o","n","n","e","c","t","e","d">>
PresenceEventTypes ==
  << <<"c","o","n","t","a","c","t","s","t","a","t","u","s">>,
     <<"e","n","d","p","o","i","n","t","s","t","a","t","u","s">>,
     <<"d","e","v","i","c","e","s","t","a","t","e","c","h","a","n","g","e">>,
     <<"p","e","e","r","s","t","a","t","u","s">>,
     <<"e","n","d","p","o","i","n","t","l","i","s","t">> >>
ErrorWords ==
  << <<"4","0","4">>,
     <<"n","o","t"," ","f","o","u","n","d">>,
     <<"e","r","r","o","r">>,
     <<"f","a","i","l","e","d">>,
     <<"c","o","n","g","e","s","t","i","o","n">>,
     <<"u","n","a","v","a","i","l","a","b","l","e">>,
     <<"r","e","j","e","c","t">> >>
NoAnswerWords ==
  << <<"n","o"," ","a","n","s","w","e","r">>,
     <<"b","u","s","y">>,
     <<"c","a","n","c","e","l">>,
     <<"t","i","m","e","o","u","t">> >>
AnsweredWords ==
  << <<"n","o","r","m","a","l"," ","c","l","e","a","r","i","n","g">>,
     <<"a","n","s","w","e","r","e","d">> >>
InUseWords ==
  << <<"i","n","u","s","e">>,
     <<"b","u","s","y">>,
     <<"o","n","h","o","l","d">>,
     <<"r","i","n","g">>,
     <<"d","i","a","l">> >>
ConnectedWords ==
  << <<"n","o","t","i","n","u","s","e">>,
     <<"r","e","a","c","h","a","b","l","e">>,
     <<"o","n","l","i","n","e">>,
     <<"r","e","g","i","s","t","e","r","e","d">>,
     <<"a","v","a","i","l">>,
     <<"o","k">>,
     <<"r","e","a","d","y">> >>
DisconnectedWords ==
  << <<"u","n","r","e","a","c","h","a","b","l","e">>,
     <<"o","f","f","l","i","n","e">>,
     <<"u","n","a","v","a","i","l","a","b","l","e">>,
     <<"n","o","n","q","u","a","l","i","f","i","e","d">>,
     <<"u","n","k","n","o","w","n">>,
     <<"l","a","g","g","e","d">>,
     <<"r","e","m","o","v","e","d">>,
     <<"i","n","v","a","l","i","d">>,
     <<"f","a","i","l","e","d">> >>
PseudoExtens ==
  << << >>,
     <<"s">>,
     <<"h">>,
     <<"i">> >>

(***************************************************************************)
(* Event normalizer: field lookup, link key, number cleaning               *)
(***************************************************************************)
\* An event is a Go map[string]string: a function from keys to values.
\* eventValue: the first key with an exact non-blank entry, else the first
\* key with a case-insensitive non-blank entry.  Were several entries to
\* match a key case-insensitively, the order of the map iteration would
\* decide; no event of the model has two keys that differ in case only.
eventValue(event, keys) ==
  LET exact == {i \in 1..Len(keys) :
                  keys[i] \in DOMAIN event /\ TrimSpace(event[keys[i]]) # Empty}
      fold(i) == {k \in DOMAIN event :
                  EqualFold(k, keys[i]) /\ TrimSpace(event[k]) # Empty}
      folded == {i \in 1..Len(keys) : fold(i) # {}}
  IN  IF exact # {} THEN TrimSpace(event[keys[MinOf(exact)]])
      ELSE IF folded # {}
        THEN TrimSpace(event[CHOOSE k \in fold(MinOf(folded)) : TRUE])
      ELSE Empty

firstNonEmpty(values) ==
  LET ok == {i \in 1..Len(values) : TrimSpace(values[i]) # Empty}
  IN  IF ok = {} THEN Empty ELSE TrimSpace(values[MinOf(ok)])

cleanNumber(raw) == FilterChars(TrimSpace(raw), Digits \cup {"+", "*", "#"})

cleanTarget(raw) ==
  IF \E i \in 1..Len(PseudoExtens) : cleanNumber(raw) = PseudoExtens[i]
    THEN Empty ELSE cleanNumber(raw)

channelPeer(channel) ==
  LET c0 == TrimSpace(channel)
      c1 == IF Contains(c0, <<"/">>) THEN SplitRest(c0, <<"/">>) ELSE c0
      c2 == SplitFirst(c1, <<"-">>)
  IN  IF c0 = Empty THEN Empty ELSE SplitFirst(c2, <<"@">>)

\* a parseDialString that keeps what follows the first '/'
parseDialStringFirstSlash(raw) ==
  LET r0 == TrimSpace(raw)
      p1 == SplitFirst(r0, <<",">>)
      p2 == SplitFirst(p1, <<"&">>)
      p3 == IF Contains(p2, <<"/">>) THEN SplitRest(p2, <<"/">>) ELSE p2
  IN  IF r0 = Empty THEN Empty ELSE TrimSpace(p3)

parseDialString(raw) ==
  LET r0 == TrimSpace(raw)
      p1 == SplitFirst(r0, <<",">>)
      p2 == SplitFirst(p1, <<"&">>)
      p3 == IF Contains(p2, <<"/">>) THEN SplitLast(p2, <<"/">>) ELSE p2
  IN  IF r0 = Empty THEN Empty ELSE TrimSpace(p3)

\* a linkedIDFor that looks at the unique ids before the linked ids
linkedIDForUniqueFirst(event) ==
  LET orChannel(id) ==
        IF id # Empty THEN id ELSE TrimSpace(eventValue(event, AnyChannelKeys))
  IN  orChannel(TrimSpace(firstNonEmpty(<<
              eventValue(event, UniqueidKeys),
              eventValue(event, DestUniqueidKeys),
              eventValue(event, SrcUniqueidKeys),
              eventValue(event, LinkedidKeys),
              eventValue(event, DestLinkedidKeys),
              eventValue(event, SrcLinkedidKeys) >>)))

linkedIDFor(event) ==
  LET orChannel(id) ==
        IF id # Empty THEN id ELSE TrimSpace(eventValue(event, AnyChannelKeys))
  IN  orChannel(TrimSpace(firstNonEmpty(<<
              eventValue(event, LinkedidKeys),
              eventValue(event, DestLinkedidKeys),
              eventValue(event, SrcLinkedidKeys),
              eventValue(event, UniqueidKeys),
              eventValue(event, DestUniqueidKeys),
              eventValue(event, SrcUniqueidKeys) >>)))

channelKey(event) ==
  TrimSpace(firstNonEmpty(<< eventValue(event, UniqueidKeys),
                             eventValue(event, ChannelKeys) >>))

isPresenceEvent(eventType) ==
  \E i \in 1..Len(PresenceEventTypes) :
     ToLower(TrimSpace(eventType)) = PresenceEventTypes[i]

(***************************************************************************)
(* Presence tracker: identity and state of a presence event                *)
(***************************************************************************)
\* raw[Index("<")+1 : LastIndex(">")] panics when the ">" precedes the "<".
cleanPresenceIDPanics(raw) ==
  LET r0 == TrimSpace(raw)
  IN  /\ Contains(r0, <<"<">>) /\ Contains(r0, <<">">>)
      /\ LastIndexOf(r0, <<">">>) < IndexOf(r0, <<"<">>)

\* the steps of cleanPresenceID in the order of the code: the text between
\* "<" and ">", the user part between the last ":" before the "@" and the
\* "@", the part after the technology prefix, the part before "-" and "@",
\* then its digits when it has any
cleanPresenceID(raw) ==
  LET inAngles(r0) ==
        IF Contains(r0, <<"<">>) /\ Contains(r0, <<">">>)
          THEN SubSeq(r0, IndexOf(r0, <<"<">>) + 1, LastIndexOf(r0, <<">">>) - 1)
          ELSE r0
      cut(r1, at, colon) ==
        IF Contains(r1, <<":">>) /\ Contains(r1, <<"@">>) /\ at > 1 /\ colon >= 1
          THEN SubSeq(r1, colon + 1, at - 1)
          ELSE r1
      cutAt(r1, at) == cut(r1, at, LastIndexOf(SubSeq(r1, 1, at - 1), <<":">>))
      userPart(r1) == cutAt(r1, IndexOf(r1, <<"@">>))
      afterTech(r2) == IF Contains(r2, <<"/">>) THEN SplitRest(r2, <<"/">>) ELSE r2
      digitsOr(n, r5) == IF n # Empty THEN n ELSE TrimSpace(r5)
      number(r5) == digitsOr(cleanNumber(r5), r5)
      clean(r0) ==
        IF r0 = Empty THEN Empty
        ELSE number(SplitFirst(SplitFirst(afterTech(userPart(inAngles(r0))),
                                          <<"-">>), <<"@">>))
  IN  clean(TrimSpace(raw))

presenceCandidates(event) ==
  << eventValue(event, EndpointNameKeys),
     eventValue(event, URIContactKeys),
     eventValue(event, AnyChannelKeys),
     eventValue(event, DeviceKeys) >>

\* presenceIDFor: [ok, id, panics]
\* good: the candidates that clean to a non-empty id; bad: those on which
\* cleanPresenceID panics; the loop stops at the first of either
presenceIDFor(event) ==
  LET goodOf(cands) ==
        {i \in 1..Len(cands) :
           ~cleanPresenceIDPanics(cands[i]) /\ cleanPresenceID(cands[i]) # Empty}
      badOf(cands) == {i \in 1..Len(cands) : cleanPresenceIDPanics(cands[i])}
      firstOf(cands, good) == IF good = {} THEN Len(cands) + 1 ELSE MinOf(good)
      result(cands, good, bad, first) ==
        [ok     |-> good # {} /\ ~(\E i \in bad : i < first),
         id     |-> IF good = {} THEN Empty ELSE cleanPresenceID(cands[first]),
         panics |-> \E i \in bad : i < first]
      pick(cands, good) == result(cands, good, badOf(cands), firstOf(cands, good))
      among(cands) == pick(cands, goodOf(cands))
  IN  among(presenceCandidates(event))

ContainsAny(s, words) == \E i \in 1..Len(words) : Contains(s, words[i])

\* presenceStateFor: <<state, detail>>
presenceStateFor(eventType, event) ==
  LET orType(raw0) == IF raw0 = Empty THEN eventType ELSE raw0
      normalize(raw) ==
        FilterChars(raw, {raw[i] : i \in 1..Len(raw)} \ {" ", "_", "-"})
      busy(channels) == channels.ok /\ channels.n > 0
      stateOf(channelsRaw, normalized) ==
        IF channelsRaw # Empty /\ busy(Atoi(channelsRaw)) THEN vInUse
        ELSE IF ContainsAny(normalized, InUseWords) THEN vInUse
        ELSE IF ContainsAny(normalized, ConnectedWords) THEN vConnected
        ELSE IF ContainsAny(normalized, DisconnectedWords) THEN vDisconnected
        ELSE vDisconnected
  IN  << stateOf(TrimSpace(eventValue(event, ActiveChannelsKeys)),
                 normalize(orType(ToLower(TrimSpace(firstNonEmpty(<<
                   eventValue(event, DeviceStateKeys),
                   eventValue(event, StatusKeys),
                   eventValue(event, EndpointStatusKeys),
                   eventValue(event, PeerStatusKeys),
                   eventValue(event, StateKeys) >>)))))),
         TrimSpace(firstNonEmpty(<<
                   eventValue(event, ActiveChannelsKeys),
                   eventValue(event, CauseKeys),
                   eventValue(event, SubEventKeys),
                   eventValue(event, URIKeys),
                   eventValue(event, ContactStatusKeys) >>)) >>

(***************************************************************************)
(* Call state machine: the switch of HandleAMIEvent on the event type      *)
(***************************************************************************)
\* The state folded by HandleAMIEvent is a record
\*   [active, history, presence, updated, changed]
\* active: link key -> activeCall; history: newest first.

eventTypeOf(event) == ToLower(TrimSpace(eventValue(event, EventKeys)))

\* a classification that looks for the words of no answer first
classifyEndNoAnswerFirst(endReason) ==
  LET reason == ToLower(endReason)
  IN  IF reason = Empty THEN vCompleted
      ELSE IF ContainsAny(reason, NoAnswerWords) THEN vNoAnswer
      ELSE IF ContainsAny(reason, ErrorWords) THEN vError
      ELSE IF ContainsAny(reason, AnsweredWords) THEN vAnswered
      ELSE vCompleted

\* the classification of the end reason of a finished call
classifyEnd(endReason) ==
  LET reason == ToLower(endReason)
  IN  IF reason = Empty THEN vCompleted
      ELSE IF ContainsAny(reason, ErrorWords) THEN vError
      ELSE IF ContainsAny(reason, NoAnswerWords) THEN vNoAnswer
      ELSE IF ContainsAny(reason, AnsweredWords) THEN vAnswered
      ELSE vCompleted

endReasonOf(event) ==
  TrimSpace(firstNonEmpty(<< eventValue(event, CauseTxtKeys),
                             eventValue(event, CauseKeys),
                             eventValue(event, DialStatusKeys) >>))

\* Everything HandleAMIEvent reads from an event, each field computed by the
\* expression of the code that reads it.
eventFields(event) ==
  [type      |-> eventTypeOf(event),
   linkedID  |-> linkedIDFor(event),
   channel   |-> channelKey(event),
   ncFrom    |-> firstNonEmpty(<< cleanNumber(eventValue(event, CallerIDNumKeys)),
                                  cleanNumber(channelPeer(eventValue(event, ChannelKeys))) >>),
   ncTo      |-> firstNonEmpty(<< cleanTarget(eventValue(event, ExtenKeys)),
                                  cleanNumber(eventValue(event, ConnectedLineNumKeys)) >>),
   state     |-> ToLower(TrimSpace(eventValue(event, ChannelStateDescKeys))),
   dialFrom  |-> firstNonEmpty(<< cleanNumber(eventValue(event, CallerIDNumKeys)),
                                  cleanNumber(channelPeer(eventValue(event, SrcChannelKeys))) >>),
   dialTo    |-> firstNonEmpty(<< cleanNumber(parseDialString(eventValue(event, DialStringKeys))),
                                  cleanNumber(channelPeer(eventValue(event, DestChannelKeys))) >>),
   src       |-> TrimSpace(eventValue(event, SrcUniqueIDKeys)),
   dst       |-> TrimSpace(eventValue(event, DestUniqueIDKeys)),
   subEvent  |-> ToLower(TrimSpace(eventValue(event, SubEventKeys))),
   endReason |-> endReasonOf(event),
   endState  |-> classifyEnd(endReasonOf(event)),
   presence  |-> isPresenceEvent(eventTypeOf(event)),
   presID    |-> presenceIDFor(event),
   presState |-> presenceStateFor(eventTypeOf(event), event)]

newCall(id, t) ==
  [ID |-> id, From |-> Empty, To |-> Empty, State |-> vRinging,
   Start |-> t, Updated |-> t, channels |-> {}]

getOrCreateCallLocked(act, id, t) ==
  IF id \in DOMAIN act THEN act ELSE act @@ (id :> newCall(id, t))

deleteCall(act, id) == [k \in DOMAIN act \ {id} |-> act[k]]

addChannel(call, ch) ==
  IF ch # Empty THEN [call EXCEPT !.channels = @ \cup {ch}] ELSE call

\* a fillFrom in which the last writer wins
fillFromOverwrites(call, from) ==
  IF from # Empty THEN [call EXCEPT !.From = from] ELSE call

fillFrom(call, from) ==
  IF call.From = Empty /\ from # Empty THEN [call EXCEPT !.From = from] ELSE call

fillTo(call, to) ==
  IF call.To = Empty /\ to # Empty THEN [call EXCEPT !.To = to] ELSE call

setState(call, state) ==
  IF state # Empty THEN [call EXCEPT !.State = state] ELSE call

\* case "newchannel"
caseNewchannel(S, f, t) ==
  LET act == getOrCreateCallLocked(S.active, f.linkedID, t)
      c0  == act[f.linkedID]
      c1  == setState(fillTo(fillFrom(addChannel(c0, f.channel), f.ncFrom), f.ncTo),
                      f.state)
  IN  [S EXCEPT !.active = [act EXCEPT ![f.linkedID] = c1],
                !.changed = \/ f.channel # Empty
                            \/ (c0.From = Empty /\ f.ncFrom # Empty)
                            \/ (c0.To = Empty /\ f.ncTo # Empty)
                            \/ f.state # Empty]

\* a faulty dial-begin case, which leaves the state of the call as it was
caseDialBeginKeepsState(S, f, t) ==
  LET act == getOrCreateCallLocked(S.active, f.linkedID, t)
      c1  == addChannel(addChannel(fillTo(fillFrom(act[f.linkedID], f.dialFrom),
                                          f.dialTo), f.src), f.dst)
  IN  [S EXCEPT !.active = [act EXCEPT ![f.linkedID] = c1], !.changed = TRUE]

\* case "dialbegin", and case "dial" with SubEvent "begin"
caseDialBegin(S, f, t) ==
  LET act == getOrCreateCallLocked(S.active, f.linkedID, t)
      c1  == addChannel(addChannel(fillTo(fillFrom(act[f.linkedID], f.dialFrom),
                                          f.dialTo), f.src), f.dst)
  IN  [S EXCEPT !.active = [act EXCEPT ![f.linkedID] = [c1 EXCEPT !.State = vDialing]],
                !.changed = TRUE]

\* case "dial"
caseDial(S, f, t) ==
  IF f.subEvent = vBegin THEN caseDialBegin(S, f, t) ELSE S

\* case "newstate"
caseNewstate(S, f, t) ==
  LET act == getOrCreateCallLocked(S.active, f.linkedID, t)
  IN  [S EXCEPT !.active = [act EXCEPT ![f.linkedID] = setState(act[f.linkedID], f.state)],
                !.changed = f.state # Empty]

\* case "bridgeenter"
caseBridgeenter(S, f, t) ==
  LET act == getOrCreateCallLocked(S.active, f.linkedID, t)
      c1  == addChannel([act[f.linkedID] EXCEPT !.State = vActive], f.channel)
  IN  [S EXCEPT !.active = [act EXCEPT ![f.linkedID] = c1], !.changed = TRUE]

\* a faulty bridge-left case, which takes the leg of the event off the call
caseBridgeleaveRemovesLeg(S, f, t) ==
  IF f.linkedID \notin DOMAIN S.active THEN S
  ELSE [S EXCEPT !.active[f.linkedID].State = vRinging,
                 !.active[f.linkedID].channels = @ \ {f.channel},
                 !.changed = TRUE]

\* a faulty bridge-left case, which creates the call it does not find
caseBridgeleaveCreates(S, f, t) ==
  [S EXCEPT !.active = [getOrCreateCallLocked(S.active, f.linkedID, t)
                          EXCEPT ![f.linkedID].State = vRinging],
            !.changed = TRUE]

\* case "bridgeleave"
caseBridgeleave(S, f, t) ==
  IF f.linkedID \notin DOMAIN S.active THEN S
  ELSE [S EXCEPT !.active[f.linkedID].State = vRinging, !.changed = TRUE]

historyRecord(call, f, t) ==
  [ID |-> call.ID, From |-> call.From, To |-> call.To,
   State |-> f.endState, EndReason |-> f.endReason,
   Start |-> call.Start, End |-> t, DurationSec |-> t - call.Start]

\* a faulty hangup case, which takes every leg off the call
caseHangupDropsLegs(S, f, t) ==
  IF f.linkedID \notin DOMAIN S.active THEN S
  ELSE [S EXCEPT !.active = deleteCall(S.active, f.linkedID),
                 !.history = <<historyRecord(S.active[f.linkedID], f, t)>>
                               \o S.history,
                 !.changed = TRUE]

\* a faulty hangup case, which puts the record of the call last in History
caseHangupAppendsLast(S, f, t) ==
  IF f.linkedID \notin DOMAIN S.active THEN S
  ELSE LET c0 == S.active[f.linkedID]
           c1 == IF f.channel # Empty
                   THEN [c0 EXCEPT !.channels = @ \ {f.channel}]
                   ELSE c0
       IN  IF c1.channels = {}
             THEN [S EXCEPT !.active = deleteCall(S.active, f.linkedID),
                            !.history = Append(S.history, historyRecord(c1, f, t)),
                            !.changed = TRUE]
             ELSE [S EXCEPT !.active[f.linkedID] = c1, !.changed = (f.channel # Empty)]

\* case "hangup"
caseHangup(S, f, t) ==
  IF f.linkedID \notin DOMAIN S.active THEN S
  ELSE LET c0 == S.active[f.linkedID]
           c1 == IF f.channel # Empty
                   THEN [c0 EXCEPT !.channels = @ \ {f.channel}]
                   ELSE c0
       IN  IF c1.channels = {}
             THEN [S EXCEPT !.active = deleteCall(S.active, f.linkedID),
                            !.history = <<historyRecord(c1, f, t)>> \o S.history,
                            !.changed = TRUE]
             ELSE [S EXCEPT !.active[f.linkedID] = c1, !.changed = (f.channel # Empty)]

\* a faulty presence case, which stores the record whatever the stored pair
casePresenceAlwaysStores(S, f, t) ==
  LET id   == f.presID.id
      next == [ID |-> id, State |-> f.presState[1], Detail |-> f.presState[2],
               Updated |-> t]
  IN  IF f.presID.ok
        THEN [S EXCEPT !.presence =
                         [k \in DOMAIN S.presence \cup {id} |->
                            IF k = id THEN next ELSE S.presence[k]],
                       !.changed = TRUE]
        ELSE S

\* case "contactstatus", "endpointstatus", "devicestatechange", "peerstatus",
\* "endpointlist", for an event whose presenceIDFor does not panic
casePresence(S, f, t) ==
  LET id   == f.presID.id
      next == [ID |-> id, State |-> f.presState[1], Detail |-> f.presState[2],
               Updated |-> t]
      differs == \/ id \notin DOMAIN S.presence
                 \/ S.presence[id].State # next.State
                 \/ S.presence[id].Detail # next.Detail
  IN  IF f.presID.ok /\ differs
        THEN [S EXCEPT !.presence =
                         [k \in DOMAIN S.presence \cup {id} |->
                            IF k = id THEN next ELSE S.presence[k]],
                       !.changed = TRUE]
        ELSE S

\* the switch statement, entered with changed = FALSE
switchEvent(S, f, t) ==
  CASE f.type = tNewchannel  -> caseNewchannel(S, f, t)
    [] f.type = tDialbegin   -> caseDialBegin(S, f, t)
    [] f.type = tDial        -> caseDial(S, f, t)
    [] f.type = tNewstate    -> caseNewstate(S, f, t)
    [] f.type = tBridgeenter -> caseBridgeenter(S, f, t)
    [] f.type = tBridgeleave -> caseBridgeleave(S, f, t)
    [] f.type = tHangup      -> caseHangup(S, f, t)
    [] f.presence            -> casePresence(S, f, t)
    [] OTHER -> S

\* a HandleAMIEvent that never returns before the switch
skipsEventNever(f) == FALSE

\* HandleAMIEvent returns before taking the lock
skipsEvent(f) == f.linkedID = Empty /\ ~f.presence

\* HandleAMIEvent panics inside the switch
panicsEvent(f) == f.presence /\ f.presID.panics

(***************************************************************************)
(* History store                                                           *)
(***************************************************************************)
RECURSIVE pruneLoop(_, _, _)
pruneLoop(items, kept, cutoff) ==
  IF items = << >> THEN kept
  ELSE IF Head(items).End < cutoff THEN pruneLoop(Tail(items), kept, cutoff)
  ELSE IF Len(kept) + 1 >= MaxHistory THEN Append(kept, Head(items))
  ELSE pruneLoop(Tail(items), Append(kept, Head(items)), cutoff)

pruneLocked(hist, t) == pruneLoop(hist, << >>, t - Retention)

\* a tail that stamps every active call
commitEventStampsAll(S, id, t) ==
  IF ~S.changed THEN S
  ELSE [S EXCEPT !.active = [k \in DOMAIN S.active |->
                               [S.active[k] EXCEPT !.Updated = t]],
                 !.history = pruneLocked(S.history, t),
                 !.updated = t]

\* the tail of HandleAMIEvent's critical section: if changed { ... }
commitEvent(S, id, t) ==
  IF ~S.changed THEN S
  ELSE [S EXCEPT !.active = [k \in DOMAIN S.active |->
                               IF k = id THEN [S.active[k] EXCEPT !.Updated = t]
                               ELSE S.active[k]],
                 !.history = pruneLocked(S.history, t),
                 !.updated = t]

\* the whole critical section of HandleAMIEvent for an event it does not skip
foldEvent(S, f, t) ==
  commitEvent(switchEvent([S EXCEPT !.changed = FALSE], f, t), f.linkedID, t)

(***************************************************************************)
(* Inputs: the events and CDR files the model feeds to the service         *)
(***************************************************************************)
EmptyMap == [x \in {} |-> x]

Fld(keys, v) == IF v = Empty THEN EmptyMap ELSE (keys[1] :> v)

mkEvent(type, fields) == (EventKeys[1] :> type) @@ fields

L1 == <<"L","1">>
U1 == <<"u","1">>
U2 == <<"u","2">>
Num26 == <<"2","6","0","1">>
NumDirty == <<"a","2","6">>
Ext27 == <<"2","6","0","2">>
ExtS == <<"s">>
NormalClearing == <<"N","o","r","m","a","l"," ","C","l","e","a","r","i","n","g">>
StateUp == <<"U","p">>
DialTarget == <<"P","J","S","I","P","/","2","6","0","3","&","P","J","S","I","P","/","2","6","0","4",",","2","0">>
SrcChan == <<"P","J","S","I","P","/","2","6","0","5","-","0","0","0","1">>
DstChan == <<"P","J","S","I","P","/","2","6","0","6","-","0","0","0","2">>
PeerName == <<"P","J","S","I","P","/","2","6","0","1">>
Reachable == <<"R","e","a","c","h","a","b","l","e">>
Lagged == <<"L","a","g","g","e","d">>
EvNewchannel == <<"N","e","w","c","h","a","n","n","e","l">>
EvDialBegin == <<"D","i","a","l","B","e","g","i","n">>
EvDial == <<"D","i","a","l">>
EvNewstate == <<"N","e","w","s","t","a","t","e">>
EvBridgeEnter == <<"B","r","i","d","g","e","E","n","t","e","r">>
EvBridgeLeave == <<"B","r","i","d","g","e","L","e","a","v","e">>
EvHangup == <<"H","a","n","g","u","p">>
EvPeerStatus == <<"P","e","e","r","S","t","a","t","u","s">>
SubBegin == <<"B","e","g","i","n">>

NewchannelEvents ==
  {mkEvent(EvNewchannel, Fld(LinkedidKeys, L1) @@ Fld(UniqueidKeys, U1)
                         @@ Fld(CallerIDNumKeys, pt[1]) @@ Fld(ExtenKeys, pt[2])) :
     pt \in {<<Num26, Ext27>>, <<NumDirty, ExtS>>}}

BridgeEvents ==
  {mkEvent(ty, Fld(LinkedidKeys, L1) @@ Fld(UniqueidKeys, U1)) :
     ty \in {EvBridgeEnter, EvBridgeLeave}}

HangupEvents ==
  {mkEvent(EvHangup, Fld(LinkedidKeys, L1) @@ Fld(UniqueidKeys, u)
                     @@ Fld(CauseTxtKeys, NormalClearing)) : u \in {U1, U2}}

NewstateEvents ==
  {mkEvent(EvNewstate, Fld(LinkedidKeys, L1) @@ Fld(UniqueidKeys, U1)
                       @@ Fld(ChannelStateDescKeys, d)) : d \in {StateUp, Empty}}

DialEvents ==
  {mkEvent(ty[1], Fld(SubEventKeys, ty[2]) @@ Fld(LinkedidKeys, L1)
                  @@ Fld(SrcUniqueIDKeys, U1) @@ Fld(DestUniqueIDKeys, U2)
                  @@ Fld(CallerIDNumKeys, pt[1]) @@ Fld(DialStringKeys, pt[2])
                  @@ Fld(SrcChannelKeys, SrcChan) @@ Fld(DestChannelKeys, DstChan)) :
     ty \in {<<EvDialBegin, Empty>>, <<EvDial, SubBegin>>},
     pt \in {<<Num26, DialTarget>>, <<NumDirty, Empty>>, <<Empty, Empty>>}}

PresenceEvents ==
  {mkEvent(EvPeerStatus, Fld(EndpointNameKeys, PeerName) @@ Fld(PeerStatusKeys, st)) :
     st \in {Reachable, Lagged}}

\* a bridge-left that names the second leg
BridgeLeaveU2 == mkEvent(EvBridgeLeave, Fld(LinkedidKeys, L1) @@ Fld(UniqueidKeys, U2))

\* a hangup that names the call and no channel
HangupNoLeg == mkEvent(EvHangup, Fld(LinkedidKeys, L1) @@ Fld(CauseTxtKeys, NormalClearing))

\* events that carry no identifier at all, or a blank one
BareEvents ==
  {mkEvent(EvNewchannel, Fld(CallerIDNumKeys, Num26)),
   mkEvent(EvHangup, Fld(LinkedidKeys, <<" ">>) @@ Fld(CauseTxtKeys, NormalClearing))}

Events ==
  NewchannelEvents \cup BridgeEvents \cup HangupEvents \cup NewstateEvents
    \cup DialEvents \cup PresenceEvents \cup BareEvents
    \cup {HangupNoLeg, BridgeLeaveU2}

\* the readings of the end column: at time 1, the first is taken as it is
\* and the second is taken in UTC, ahead of the clock
CDRStamps == {1, 2}

CDRUid == <<"c","1">>
CDRDisp == <<"A","N","S","W","E","R","E","D">>

cdrRow(cols, stamp) ==
  [cols |-> cols, csvErr |-> FALSE, start |-> stamp, end |-> stamp, dur |-> 0,
   from |-> Num26, to |-> Ext27, disp |-> CDRDisp, uid |-> CDRUid]

CDRRows == {cdrRow(17, e) : e \in CDRStamps} \cup {cdrRow(16, 1)}

\* the rows an import is tried on: these, a row whose timestamps are not in
\* the layout, and a row the CSV reader fails on (a bare quote in a field)
ImportRows ==
  CDRRows \cup {cdrRow(17, 0 - 1), [cdrRow(17, 2) EXCEPT !.csvErr = TRUE]}

ImportFiles == UNION {[1..n -> ImportRows] : n \in 0..MaxRows}

CDRFiles == UNION {[1..n -> CDRRows] : n \in 0..MaxRows}

SmallCDRFiles == {<< >>, <<cdrRow(17, 1)>>}

HangupU1 ==
  mkEvent(EvHangup, Fld(LinkedidKeys, L1) @@ Fld(UniqueidKeys, U1)
                    @@ Fld(CauseTxtKeys, NormalClearing))

BridgeEnterU1 == mkEvent(EvBridgeEnter, Fld(LinkedidKeys, L1) @@ Fld(UniqueidKeys, U1))

\* the events of a call that runs from channel-created to hangup
LifeEvents == NewchannelEvents \cup {BridgeEnterU1, HangupU1}

\* the events folded while other goroutines run
ConcEvents == NewstateEvents \cup {HangupU1}

\* the events fed to the service while subscribers listen
NotifyEvents == PresenceEvents \cup NewstateEvents \cup BareEvents \cup {HangupU1}

\* the events that add legs to a call, take them away and end it
LegEvents ==
  NewchannelEvents \cup BridgeEvents \cup HangupEvents
    \cup {HangupNoLeg, BridgeLeaveU2}
    \cup {mkEvent(EvDialBegin, Fld(LinkedidKeys, L1)
                   @@ Fld(SrcUniqueIDKeys, U1) @@ Fld(DestUniqueIDKeys, U2)
                   @@ Fld(CallerIDNumKeys, Num26) @@ Fld(DialStringKeys, DialTarget)
                   @@ Fld(SrcChannelKeys, SrcChan) @@ Fld(DestChannelKeys, DstChan))}

\* the hangups that end a call of one leg, by what they say of its end
UserBusy == <<"U","s","e","r"," ","b","u","s","y">>
BusyRejected == <<"B","u","s","y",","," ","r","e","j","e","c","t","e","d">>
Cause16 == <<"1","6">>
Cause404 == <<"4","0","4">>
StatusCongestion == <<"C","O","N","G","E","S","T","I","O","N">>

EndEvents ==
  {mkEvent(EvHangup, Fld(LinkedidKeys, L1) @@ Fld(UniqueidKeys, U1)
                     @@ Fld(CauseTxtKeys, r[1]) @@ Fld(CauseKeys, r[2])
                     @@ Fld(DialStatusKeys, r[3])) :
     r \in {Empty, NormalClearing, UserBusy, BusyRejected}
             \X {Empty, Cause16, Cause404}
             \X {Empty, StatusCongestion}}

\* presence events that also carry the identifiers of a call
L2 == <<"L","2">>

TaggedPresenceEvents ==
  {mkEvent(EvPeerStatus, Fld(EndpointNameKeys, PeerName) @@ Fld(PeerStatusKeys, st)
                         @@ Fld(LinkedidKeys, L1) @@ Fld(UniqueidKeys, U1)) :
     st \in {Reachable, Lagged}}

\* the events of two calls, each of one leg, and of the presence of a peer
TouchEvents ==
  {mkEvent(EvNewchannel, Fld(LinkedidKeys, id[1]) @@ Fld(UniqueidKeys, id[2])
                         @@ Fld(CallerIDNumKeys, Num26) @@ Fld(ExtenKeys, Ext27)) :
     id \in {<<L1, U1>>, <<L2, U2>>}}
    \cup {mkEvent(EvHangup, Fld(LinkedidKeys, id[1]) @@ Fld(UniqueidKeys, id[2])
                            @@ Fld(CauseTxtKeys, NormalClearing)) :
            id \in {<<L1, U1>>, <<L2, U2>>, <<L1, U2>>}}
    \cup {mkEvent(EvBridgeLeave, Fld(LinkedidKeys, L1) @@ Fld(UniqueidKeys, U1))}
    \cup PresenceEvents \cup TaggedPresenceEvents

\* every event some specification folds
FoldedEvents == Events \cup EndEvents \cup TouchEvents

\* eventFields of every event of the model, computed once
Fields == [event \in FoldedEvents |-> eventFields(event)]

(***************************************************************************)
(* CDR import                                                              *)
(***************************************************************************)
\* A CDR row is [cols, csvErr, start, end, dur, from, to, disp, uid]: cols is
\* the number of columns, csvErr says that the CSV reader fails on the row,
\* start and end are the wall-clock readings of columns 9 and 11 (BadStamp:
\* not in the layout "2006-01-02 15:04:05").
BadStamp == 0 - 1

\* time.Duration is a signed 64-bit count of nanoseconds; in ticks of the
\* model its largest value is MaxDuration and its smallest 0 - MaxDuration - 1
MaxDuration == 8
MinDuration == 0 - MaxDuration - 1

\* Time.Sub: the difference, or the largest or smallest Duration when the
\* difference cannot be stored in one
subTime(t, u) ==
  IF t - u > MaxDuration THEN MaxDuration
  ELSE IF t - u < MinDuration THEN MinDuration
  ELSE t - u

\* -d wraps for the smallest Duration, which is its own negation
absDuration(d) == IF d < 0 THEN (IF d = MinDuration THEN d ELSE 0 - d) ELSE d

\* parseCDRTime: [ok, ts]; the reading is taken once in time.Local and once
\* in UTC, both parse, and the one closer to now is kept.
parseCDRTime(raw, t) ==
  LET localTS == raw - LocalOffset
      utcTS   == raw
  IN  IF raw = BadStamp THEN [ok |-> FALSE, ts |-> ZeroTime]
      ELSE IF absDuration(subTime(t, utcTS)) < absDuration(subTime(t, localTS))
        THEN [ok |-> TRUE, ts |-> utcTS]
        ELSE [ok |-> TRUE, ts |-> localTS]

rowKept(row, t) ==
  /\ row.cols >= 17
  /\ parseCDRTime(row.start, t).ok
  /\ parseCDRTime(row.end, t).ok
  /\ ~(parseCDRTime(row.end, t).ts < t - Retention)

rowRecord(row, t) ==
  [ID |-> TrimSpace(row.uid), From |-> TrimSpace(row.from), To |-> TrimSpace(row.to),
   State |-> TrimSpace(row.disp), EndReason |-> TrimSpace(row.disp),
   Start |-> parseCDRTime(row.start, t).ts, End |-> parseCDRTime(row.end, t).ts,
   DurationSec |-> row.dur]

\* the read loop of LoadCDR over a file without CSV errors
RECURSIVE loadRows(_, _)
loadRows(file, t) ==
  IF file = << >> THEN << >>
  ELSE (IF rowKept(Head(file), t) THEN <<rowRecord(Head(file), t)>> ELSE << >>)
       \o loadRows(Tail(file), t)

fileHasCSVError(file) == \E i \in 1..Len(file) : file[i].csvErr

IsSortedNewestFirst(hist) ==
  \A i \in 1..Len(hist) : \A j \in 1..Len(hist) : i < j => hist[i].End >= hist[j].End

\* a LoadCDR that leaves the records in the order of the file
sortedByEndAsRead(loaded) == {loaded}

\* sort.Slice by End descending is not stable: any sorted permutation
sortedByEnd(loaded) ==
  {[i \in 1..Len(loaded) |-> loaded[p[i]]] :
     p \in {q \in [1..Len(loaded) -> 1..Len(loaded)] :
              /\ \A i, j \in 1..Len(loaded) : i # j => q[i] # q[j]
              /\ IsSortedNewestFirst([i \in 1..Len(loaded) |-> loaded[q[i]]])}}

(***************************************************************************)
(* Change notifier                                                         *)
(***************************************************************************)
\* chans: subscriber id -> [buf, closed], the one-slot channel made by
\* Subscribe; subs: the ids registered in s.subs.

\* a non-blocking send on an open channel
\* a send on a channel that takes whatever it is given
trySendUnbounded(ch) == [ch EXCEPT !.buf = @ + 1]

trySend(ch) == IF ch.buf = 0 THEN [ch EXCEPT !.buf = 1] ELSE ch

\* notify over the channels copied by copySubsLocked, none of them closed
notify(cs, targets) ==
  [id \in DOMAIN cs |-> IF id \in targets THEN trySend(cs[id]) ELSE cs[id]]

(***************************************************************************)
(* State                                                                   *)
(***************************************************************************)
VARIABLES
  now,       \* the clock read by time.Now()
  active,    \* s.active
  history,   \* s.history
  presence,  \* s.presence
  updated,   \* s.updated
  subs,      \* the keys of s.subs
  nextID,    \* s.nextID
  chans,     \* the channels created by Subscribe
  crashed,   \* a goroutine panicked: the process is gone
  lastLoad,  \* what the last LoadCDR returned: [n, err]
  nLoads,    \* LoadCDR calls so far
  nEvents,   \* HandleAMIEvent calls so far
  last,      \* the last mutating call: [op, ev, t, file]
  life,      \* progress of a channel-created, bridge-entered, hangup sequence
  mu,        \* s.mu: "free", or the goroutine that holds it for writing
  hnd,       \* the goroutine in HandleAMIEvent: [pc, ev, t, changed, targets, base]
  ldr,       \* the goroutine in LoadCDR: [pc, loaded]
  ws,        \* handleCallsWS: [pc, id, seen, snap, out, signals, req, status]
  ver,       \* state-changing events committed so far
  commits,   \* the tracked states left by the completed critical sections
  ami,       \* the connection manager
  pure       \* the last application of a function on its own: [fn, arg, out]

svcVars == <<active, history, presence, updated>>
subVars == <<subs, nextID, chans>>
concVars == <<mu, hnd, ldr, ws, ver, commits>>
vars == <<now, active, history, presence, updated, subs, nextID, chans,
          crashed, lastLoad, nLoads, nEvents, last, life, mu, hnd, ldr, ws,
          ver, commits, ami, pure>>
ghostVars == <<nEvents, last, life, pure>>
\* all that the connection manager leaves alone
restVars == <<now, active, history, presence, updated, subs, nextID, chans,
              crashed, lastLoad, nLoads, nEvents, last, life, mu, hnd, ldr, ws,
              ver, commits, pure>>

NoLife == [stage |-> 0, key |-> Empty, leg |-> Empty,
           ev1 |-> EmptyMap, ev3 |-> EmptyMap, hist |-> << >>]

svc == [active |-> active, history |-> history, presence |-> presence,
        updated |-> updated, changed |-> FALSE]

\* the part of a service state that callers can read
tracked(S) ==
  [active |-> S.active, history |-> S.history, presence |-> S.presence,
   updated |-> S.updated]

\* the Call embedded in an activeCall: the legs are not part of it
callOf(call) ==
  [ID |-> call.ID, From |-> call.From, To |-> call.To, State |-> call.State,
   Start |-> call.Start, Updated |-> call.Updated]

\* what Snapshot copies out of a service state; the order it gives to Active
\* and Presences is left out
snapshotOf(S) ==
  [Active    |-> {callOf(S.active[k]) : k \in DOMAIN S.active},
   History   |-> S.history,
   Presences |-> {S.presence[k] : k \in DOMAIN S.presence},
   UpdatedAt |-> S.updated]

\* the tracked state of a new service
NewTracked == [active |-> EmptyMap, history |-> << >>, presence |-> EmptyMap,
               updated |-> ZeroTime]

IdleHandler == [pc |-> "idle", ev |-> EmptyMap, t |-> ZeroTime, changed |-> FALSE,
                targets |-> {}, base |-> NewTracked]
IdleLoader == [pc |-> "idle", loaded |-> << >>]
(***************************************************************************)
(* WebSocket transport: the upgrade handshake                              *)
(***************************************************************************)
\* An upgrade request is what upgradeWebSocket reads of it: the Connection,
\* Upgrade, Sec-WebSocket-Version and Sec-WebSocket-Key headers (empty when
\* the header is missing) and whether the response writer is a Hijacker.
tokUpgrade == <<"u", "p", "g", "r", "a", "d", "e">>
tokWebsocket == <<"w", "e", "b", "s", "o", "c", "k", "e", "t">>
tokVersion == <<"1", "3">>

StatusSwitching == 101
StatusBadRequest == 400
StatusInternalServerError == 500

RECURSIVE headerHasToken(_, _)
headerHasToken(value, token) ==
  IF EqualFold(TrimSpace(SplitFirst(value, <<",">>)), token) THEN TRUE
  ELSE IF IndexOf(value, <<",">>) = 0 THEN FALSE
  ELSE headerHasToken(SplitRest(value, <<",">>), token)

\* an upgradeWebSocket that does not look at the handshake key
upgradeWebSocketAnyKey(req) ==
  IF \/ ~headerHasToken(req.connection, tokUpgrade)
     \/ ~EqualFold(TrimSpace(req.upgrade), tokWebsocket)
    THEN [ok |-> FALSE, status |-> StatusBadRequest]
  ELSE IF ~EqualFold(TrimSpace(req.version), tokVersion)
    THEN [ok |-> FALSE, status |-> StatusBadRequest]
  ELSE IF ~req.hijacker
    THEN [ok |-> FALSE, status |-> StatusInternalServerError]
  ELSE [ok |-> TRUE, status |-> StatusSwitching]

\* upgradeWebSocket, with a Hijack and a Flush that succeed: [ok, status]
upgradeWebSocket(req) ==
  IF \/ ~headerHasToken(req.connection, tokUpgrade)
     \/ ~EqualFold(TrimSpace(req.upgrade), tokWebsocket)
    THEN [ok |-> FALSE, status |-> StatusBadRequest]
  ELSE IF ~EqualFold(TrimSpace(req.version), tokVersion)
    THEN [ok |-> FALSE, status |-> StatusBadRequest]
  ELSE IF TrimSpace(req.key) = Empty
    THEN [ok |-> FALSE, status |-> StatusBadRequest]
  ELSE IF ~req.hijacker
    THEN [ok |-> FALSE, status |-> StatusInternalServerError]
  ELSE [ok |-> TRUE, status |-> StatusSwitching]

\* the requests of the model: two that follow the protocol, and requests
\* that break it in one place or in two
hdrUpgrade == <<"U", "p", "g", "r", "a", "d", "e">>
hdrKeepAliveUpgrade == <<"k", "e", "e", "p", "-", "a", "l", "i", "v", "e", ",", " ", "u", "p", "g", "r", "a", "d", "e">>
hdrClose == <<"c", "l", "o", "s", "e">>
hdrWebSocket == <<"W", "e", "b", "S", "o", "c", "k", "e", "t">>
hdrH2c == <<"h", "2", "c">>
hdrVersion8 == <<"8">>
hdrKey == <<"d", "G", "h", "l">>

PlainRequest ==
  [connection |-> hdrUpgrade, upgrade |-> hdrWebSocket, version |-> tokVersion,
   key |-> hdrKey, hijacker |-> TRUE]

NoRequest ==
  [connection |-> Empty, upgrade |-> Empty, version |-> Empty, key |-> Empty,
   hijacker |-> FALSE]

GoodRequests ==
  {PlainRequest, [PlainRequest EXCEPT !.connection = hdrKeepAliveUpgrade]}

BadRequests ==
  {[PlainRequest EXCEPT !.connection = hdrClose],
   [PlainRequest EXCEPT !.upgrade = hdrH2c],
   [PlainRequest EXCEPT !.version = hdrVersion8],
   [PlainRequest EXCEPT !.key = Empty],
   [PlainRequest EXCEPT !.hijacker = FALSE],
   [PlainRequest EXCEPT !.key = Empty, !.hijacker = FALSE]}

Requests == GoodRequests \cup BadRequests

Upgraded == [req \in Requests |-> upgradeWebSocket(req)]

(***************************************************************************)
(* WebSocket transport: frame encoding                                     *)
(***************************************************************************)
\* A payload is a run of len bytes of value byte; bytes are 0..255.
\* byte(length>>(8*k)): the k-th byte of length from the right
RECURSIVE byteAt(_, _)
byteAt(length, k) == IF k = 0 THEN length % 256 ELSE byteAt(length \div 256, k - 1)

\* binary.BigEndian.PutUint64
PutUint64(v) == [i \in 1..8 |-> byteAt(v, 8 - i)]

\* a writeWebSocketFrame whose one-byte form takes one length too many
writeWebSocketFrameOffByOne(opcode, payload) ==
  [opcode  |-> opcode,
   payload |-> payload,
   header  |-> <<128 + (opcode % 16)>> \o
               (IF payload.len <= 126 THEN <<payload.len % 256>>
                ELSE IF payload.len <= 65535
                  THEN <<126, byteAt(payload.len, 1), byteAt(payload.len, 0)>>
                ELSE <<127>> \o PutUint64(payload.len)),
   body    |-> IF payload.len = 0 THEN << >> ELSE <<payload>>]

\* writeWebSocketFrame, both writes succeeding: what is written to the
\* connection, the header bytes and then the payload when it is not empty
writeWebSocketFrame(opcode, payload) ==
  [opcode  |-> opcode,
   payload |-> payload,
   header  |-> <<128 + (opcode % 16)>> \o
               (IF payload.len <= 125 THEN <<payload.len % 256>>
                ELSE IF payload.len <= 65535
                  THEN <<126, byteAt(payload.len, 1), byteAt(payload.len, 0)>>
                ELSE <<127>> \o PutUint64(payload.len)),
   body    |-> IF payload.len = 0 THEN << >> ELSE <<payload>>]

\* the opcodes and payloads the encoder is tried on: the lengths around the
\* steps of the length field, up to the largest the checker's integers hold
Opcodes == {0, 1, 2, 8, 9, 10, 25, 255}
PayloadLens == {0, 1, 2, 124, 125, 126, 127, 130, 255, 256, 65535, 65536,
                70000, 16777216, 2147483647}
Payloads == {[len |-> n, byte |-> 97] : n \in PayloadLens}
NoFrame == [opcode |-> 0, payload |-> [len |-> 0, byte |-> 0],
            header |-> << >>, body |-> << >>]

(***************************************************************************)
(* crypto/sha1 and encoding/base64                                         *)
(***************************************************************************)
\* A byte is 0..255. A 32-bit word is <<hi, lo>>, two halves of 16 bits, so
\* that no intermediate value leaves the checker's integers.
AsciiTable ==
  <<" ","","","","","","&","","","","","+",",","-",".","/",
    "0","1","2","3","4","5","6","7","8","9",":","","","=","","",
    "","A","B","C","D","E","F","G","H","I","J","K","L","M","N","O",
    "P","Q","R","S","T","U","V","W","X","Y","Z","","","","","_",
    "","a","b","c","d","e","f","g","h","i","j","k","l","m","n","o",
    "p","q","r","s","t","u","v","w","x","y","z","","","","">>

\* []byte(s), for letters, digits, blank and + / = - _ . , : &; AsciiTable
\* holds the characters from code 32 on, the others left empty
bytesOf(s) ==
  [i \in 1..Len(s) |-> 31 + (CHOOSE k \in 1..Len(AsciiTable) : AsciiTable[k] = s[i])]

RECURSIVE bitwise(_, _, _, _)
bitwise(a, b, n, tt) ==
  IF n = 0 THEN 0
  ELSE tt[(a % 2) + 1][(b % 2) + 1] + 2 * bitwise(a \div 2, b \div 2, n - 1, tt)

wXor(x, y) ==
  <<bitwise(x[1], y[1], 16, <<<<0, 1>>, <<1, 0>>>>),
    bitwise(x[2], y[2], 16, <<<<0, 1>>, <<1, 0>>>>)>>
wAnd(x, y) ==
  <<bitwise(x[1], y[1], 16, <<<<0, 0>>, <<0, 1>>>>),
    bitwise(x[2], y[2], 16, <<<<0, 0>>, <<0, 1>>>>)>>
wOr(x, y) ==
  <<bitwise(x[1], y[1], 16, <<<<0, 1>>, <<1, 1>>>>),
    bitwise(x[2], y[2], 16, <<<<0, 1>>, <<1, 1>>>>)>>
wNot(x) == <<65535 - x[1], 65535 - x[2]>>
wAdd(x, y) ==
  <<(x[1] + y[1] + ((x[2] + y[2]) \div 65536)) % 65536, (x[2] + y[2]) % 65536>>

\* bits.RotateLeft32 by 0 <= n < 16, and by any 0 <= n < 32
rotlHalf(x, n) ==
  <<((x[1] * 2^n) % 65536) + (x[2] \div 2^(16 - n)),
    ((x[2] * 2^n) % 65536) + (x[1] \div 2^(16 - n))>>
rotl(x, n) == IF n >= 16 THEN rotlHalf(<<x[2], x[1]>>, n - 16) ELSE rotlHalf(x, n)

\* the message with the bit 1, zeros to 56 modulo 64 and its length in bits
sha1Pad(m) ==
  m \o <<128>> \o [i \in 1..((119 - (Len(m) % 64)) % 64) |-> 0]
    \o PutUint64(8 * Len(m))

\* the 16 words of the block that starts after byte at
blockWords(p, at) ==
  [j \in 1..16 |-> <<p[at + 4 * j - 3] * 256 + p[at + 4 * j - 2],
                     p[at + 4 * j - 1] * 256 + p[at + 4 * j]>>]

RECURSIVE sha1Schedule(_)
sha1Schedule(w) ==
  IF Len(w) = 80 THEN w
  ELSE sha1Schedule(Append(w,
         rotl(wXor(wXor(w[Len(w) - 2], w[Len(w) - 7]),
                   wXor(w[Len(w) - 13], w[Len(w) - 15])), 1)))

sha1F(t, b, c, d) ==
  IF t <= 20 THEN wOr(wAnd(b, c), wAnd(wNot(b), d))
  ELSE IF t <= 40 THEN wXor(wXor(b, c), d)
  ELSE IF t <= 60 THEN wOr(wOr(wAnd(b, c), wAnd(b, d)), wAnd(c, d))
  ELSE wXor(wXor(b, c), d)

sha1K(t) ==
  IF t <= 20 THEN <<23170, 31129>>
  ELSE IF t <= 40 THEN <<28377, 60321>>
  ELSE IF t <= 60 THEN <<36635, 48348>>
  ELSE <<51810, 49622>>

RECURSIVE sha1Rounds(_, _, _)
sha1Rounds(t, v, w) ==
  IF t > 80 \/ v = << >> THEN v
  ELSE sha1Rounds(t + 1,
         <<wAdd(wAdd(wAdd(wAdd(rotl(v[1], 5), sha1F(t, v[2], v[3], v[4])), v[5]),
                     sha1K(t)), w[t]),
           v[1], rotl(v[2], 30), v[3], v[4]>>, w)

sha1Block(h, v) == [i \in 1..5 |-> wAdd(h[i], v[i])]

RECURSIVE sha1Blocks(_, _, _)
sha1Blocks(p, at, h) ==
  IF at >= Len(p) THEN h
  ELSE sha1Blocks(p, at + 64,
         sha1Block(h, sha1Rounds(1, h, sha1Schedule(blockWords(p, at)))))

\* sha1.Sum: the 20 bytes of the digest
sha1Sum(m) ==
  LET bytes(h) == [i \in 1..20 |->
                     LET half == h[(i + 3) \div 4][IF (i - 1) % 4 < 2 THEN 1 ELSE 2]
                     IN  IF i % 2 = 1 THEN half \div 256 ELSE half % 256]
  IN  bytes(sha1Blocks(sha1Pad(m), 0,
              <<<<26437, 8961>>, <<61389, 43913>>, <<39098, 56574>>,
                <<4146, 21622>>, <<50130, 57840>>>>))

Base64Table ==
  <<"A","B","C","D","E","F","G","H","I","J","K","L","M","N","O","P",
    "Q","R","S","T","U","V","W","X","Y","Z","a","b","c","d","e","f",
    "g","h","i","j","k","l","m","n","o","p","q","r","s","t","u","v",
    "w","x","y","z","0","1","2","3","4","5","6","7","8","9","+","/">>

\* base64.StdEncoding.EncodeToString
RECURSIVE base64Encode(_)
base64Encode(b) ==
  IF Len(b) = 0 THEN << >>
  ELSE IF Len(b) = 1
    THEN <<Base64Table[b[1] \div 4 + 1], Base64Table[(b[1] % 4) * 16 + 1], "=", "=">>
  ELSE IF Len(b) = 2
    THEN <<Base64Table[b[1] \div 4 + 1],
           Base64Table[(b[1] % 4) * 16 + b[2] \div 16 + 1],
           Base64Table[(b[2] % 16) * 4 + 1], "=">>
  ELSE <<Base64Table[b[1] \div 4 + 1],
         Base64Table[(b[1] % 4) * 16 + b[2] \div 16 + 1],
         Base64Table[(b[2] % 16) * 4 + b[3] \div 64 + 1],
         Base64Table[(b[3] % 64) + 1]>> \o base64Encode(SubSeq(b, 4, Len(b)))

\* the GUID of the protocol, as websocketAcceptKey spells it
websocketGUID ==
  <<"2","5","8","E","A","F","A","5","-","E","9","1","4","-","4","7","D",
    "A","-","9","5","C","A","-","C","5","A","B","0","D","C","8","5","B",
    "1","1">>

\* a websocketAcceptKey that puts the GUID before the key
websocketAcceptKeyGUIDFirst(key) ==
  base64Encode(sha1Sum(bytesOf(websocketGUID \o key)))

websocketAcceptKey(key) ==
  base64Encode(sha1Sum(bytesOf(key \o websocketGUID)))

\* what upgradeWebSocket answers: the status, and in the 101 response the
\* Sec-WebSocket-Accept header
upgradeResponse(req) ==
  LET response(r) ==
        [status |-> r.status,
         accept |-> IF r.ok THEN websocketAcceptKey(TrimSpace(req.key)) ELSE Empty]
  IN  response(upgradeWebSocket(req))

\* the handshake keys the token is computed for: the sample of RFC 6455,
\* keys of other lengths, a key between blanks and no key
KeySample ==
  <<"d","G","h","l","I","H","N","h","b","X","B","s","Z","S","B","u","b",
    "2","5","j","Z","Q","=","=">>
HandshakeKeys ==
  {KeySample, hdrKey, <<" ">> \o hdrKey \o <<" ">>, <<"x">>, Empty,
   KeySample \o KeySample \o KeySample}
HandshakeRequests ==
  {[PlainRequest EXCEPT !.key = k, !.hijacker = h] :
     k \in HandshakeKeys, h \in BOOLEAN}

\* the opcodes handleCallsWS gives to writeWebSocketFrame
OpText == 1
OpPing == 9

\* out: the opcodes of the frames written to the client, in order; signals:
\* the signals taken from the sink; req, status: the last upgrade request
\* handled and the status it was answered with; wire: the last frame given
\* to writeWebSocketFrame, as written; conn: the connection upgradeWebSocket
\* took over, "none", "open" or "closed"
NoClient == [pc |-> "none", id |-> 0, seen |-> 0, snap |-> << >>,
             out |-> << >>, signals |-> 0, req |-> NoRequest, status |-> 0,
             wire |-> NoFrame, conn |-> "none"]

\* NewService
Init ==
  /\ now = 1
  /\ active = EmptyMap
  /\ history = << >>
  /\ presence = EmptyMap
  /\ updated = ZeroTime
  /\ subs = {}
  /\ nextID = 0
  /\ chans = EmptyMap
  /\ crashed = FALSE
  /\ lastLoad = [n |-> 0, err |-> FALSE]
  /\ nLoads = 0
  /\ nEvents = 0
  /\ last = [op |-> "none", ev |-> EmptyMap, t |-> ZeroTime, file |-> << >>]
  /\ life = NoLife
  /\ mu = "free"
  /\ hnd = IdleHandler
  /\ ldr = IdleLoader
  /\ ws = NoClient
  /\ ver = 0
  /\ commits = {NewTracked}
  /\ ami = [pc |-> "start", conn |-> "none", watcher |-> "none", ctx |-> FALSE,
            inbox |-> << >>, peer |-> "up", dials |-> 0, sent |-> 0]
  /\ pure = [fn |-> "none", arg |-> Empty, out |-> Empty]

Tick ==
  /\ ~crashed
  /\ now < MaxTime
  /\ now' = now + 1
  /\ UNCHANGED <<svcVars, subVars, crashed, lastLoad, nLoads, ghostVars, concVars, ami>>

\* life follows one call through channel-created, bridge-entered and hangup,
\* folded one after the other on the same link key and leg: stage counts the
\* events folded, ev1 and ev3 are the first and the last of them, hist is
\* History before the first.
lifeNext(event, f) ==
      IF f.type = tNewchannel /\ f.linkedID # Empty /\ f.linkedID \notin DOMAIN active
         /\ f.channel # Empty
        THEN [stage |-> 1, key |-> f.linkedID, leg |-> f.channel,
              ev1 |-> event, ev3 |-> EmptyMap, hist |-> history]
      ELSE IF life.stage = 1 /\ f.type = tBridgeenter /\ f.linkedID = life.key
              /\ f.channel = life.leg
        THEN [life EXCEPT !.stage = 2]
      ELSE IF life.stage = 2 /\ f.type = tHangup /\ f.linkedID = life.key
              /\ f.channel = life.leg
        THEN [life EXCEPT !.stage = 3, !.ev3 = event]
      ELSE NoLife

\* HandleAMIEvent, run without interleaving
HandleAMIEvent(event) ==
  /\ ~crashed
  /\ nEvents < MaxEvents
  /\ nEvents' = nEvents + 1
  /\ last' = [op |-> "event", ev |-> event, t |-> now, file |-> << >>]
  /\ \E f \in {Fields[event]} :
       /\ life' = lifeNext(event, f)
       /\ IF skipsEvent(f)
            THEN UNCHANGED <<svcVars, chans, crashed>>
          ELSE IF panicsEvent(f)
            THEN crashed' = TRUE /\ UNCHANGED <<svcVars, chans>>
          ELSE \E S \in {foldEvent(svc, f, now)} :
                 /\ active' = S.active
                 /\ history' = S.history
                 /\ presence' = S.presence
                 /\ updated' = S.updated
                 /\ chans' = IF S.changed THEN notify(chans, subs) ELSE chans
                 /\ UNCHANGED crashed
  /\ UNCHANGED <<now, subs, nextID, lastLoad, nLoads, concVars, ami, pure>>

\* a LoadCDR that keeps every row of a file of whole rows, whatever its end,
\* and leaves the history unpruned
LoadCDRKeepsAll(file, noted) ==
  /\ ~crashed
  /\ nLoads < MaxLoads
  /\ nLoads' = nLoads + 1
  /\ last' = [op |-> "load", ev |-> EmptyMap, t |-> now, file |-> noted]
  /\ life' = NoLife
  /\ IF fileHasCSVError(file)
       THEN /\ lastLoad' = [n |-> 0, err |-> TRUE]
            /\ UNCHANGED <<history, updated>>
       ELSE \E loaded \in sortedByEnd(
                 IF \A i \in 1..Len(file) : file[i].cols >= 17 /\ file[i].end >= 0
                   THEN [i \in 1..Len(file) |-> rowRecord(file[i], now)]
                   ELSE loadRows(file, now)) :
              /\ history' = loaded
              /\ updated' = now
              /\ lastLoad' = [n |-> Len(history'), err |-> FALSE]
  /\ UNCHANGED <<now, active, presence, subVars, crashed, nEvents, concVars, ami, pure>>

\* LoadCDR of an existing file, run without interleaving; noted is what
\* the history variable last keeps of the file
LoadCDRNoting(file, noted) ==
  /\ ~crashed
  /\ nLoads < MaxLoads
  /\ nLoads' = nLoads + 1
  /\ last' = [op |-> "load", ev |-> EmptyMap, t |-> now, file |-> noted]
  /\ life' = NoLife
  /\ IF fileHasCSVError(file)
       THEN /\ lastLoad' = [n |-> 0, err |-> TRUE]
            /\ UNCHANGED <<history, updated>>
       ELSE \E loaded \in sortedByEnd(loadRows(file, now)) :
              /\ history' = pruneLocked(loaded, now)
              /\ updated' = now
              /\ lastLoad' = [n |-> Len(history'), err |-> FALSE]
  /\ UNCHANGED <<now, active, presence, subVars, crashed, nEvents, concVars, ami, pure>>

LoadCDR(file) == LoadCDRNoting(file, << >>)

\* a LoadCDR that reports every failure of os.Open
LoadCDROpenFailsAlways(why) ==
  /\ ~crashed
  /\ last' = [op |-> why, ev |-> EmptyMap, t |-> now, file |-> << >>]
  /\ lastLoad' = [n |-> 0, err |-> TRUE]
  /\ UNCHANGED <<now, svcVars, subVars, crashed, nLoads, nEvents, life, concVars, ami,
                 pure>>

\* LoadCDR on a path os.Open fails on: why is "missing" when the error is
\* os.ErrNotExist and "denied" for any other error
LoadCDROpenFails(why) ==
  /\ ~crashed
  /\ last' = [op |-> why, ev |-> EmptyMap, t |-> now, file |-> << >>]
  /\ lastLoad' = [n |-> 0, err |-> why # "missing"]
  /\ UNCHANGED <<now, svcVars, subVars, crashed, nLoads, nEvents, life, concVars, ami,
                 pure>>

\* Subscribe, called at most n times in a run
SubscribeUpTo(n) ==
  /\ ~crashed
  /\ nextID < n
  /\ nextID' = nextID + 1
  /\ subs' = subs \cup {nextID}
  /\ chans' = chans @@ (nextID :> [buf |-> 0, closed |-> FALSE])
  /\ UNCHANGED <<now, svcVars, crashed, lastLoad, nLoads, ghostVars, concVars, ami>>

Subscribe == SubscribeUpTo(MaxSubs)

\* a cancel function without the test of s.subs[id]: close on a closed
\* channel panics
UnsubscribeUnguarded(id) ==
  /\ ~crashed
  /\ IF chans[id].closed
       THEN crashed' = TRUE /\ UNCHANGED <<subs, chans>>
       ELSE /\ subs' = subs \ {id}
            /\ chans' = [chans EXCEPT ![id].closed = TRUE]
            /\ UNCHANGED crashed
  /\ UNCHANGED <<now, svcVars, nextID, lastLoad, nLoads, ghostVars, concVars, ami>>

\* the cancel function returned by Subscribe for id
Unsubscribe(id) ==
  /\ ~crashed
  /\ IF id \in subs
       THEN /\ subs' = subs \ {id}
            /\ chans' = [chans EXCEPT ![id].closed = TRUE]
       ELSE UNCHANGED <<subs, chans>>
  /\ UNCHANGED <<now, svcVars, nextID, crashed, lastLoad, nLoads, ghostVars, concVars, ami>>

\* a subscriber takes the pending signal off its channel
Receive(id) ==
  /\ ~crashed
  /\ chans[id].buf = 1
  /\ chans' = [chans EXCEPT ![id].buf = 0]
  /\ UNCHANGED <<now, svcVars, subs, nextID, crashed, lastLoad, nLoads, ghostVars,
                 concVars, ami>>

(***************************************************************************)
(* The service used through its API, one call at a time                    *)
(***************************************************************************)
\* the call state machine under every event of the model
Next ==
  \/ Tick
  \/ \E event \in Events : HandleAMIEvent(event)

Spec == Init /\ [][Next]_vars

\* the history store: CDR imports and calls that run to completion
NextHistory ==
  \/ Tick
  \/ \E event \in LifeEvents : HandleAMIEvent(event)
  \/ \E file \in CDRFiles : LoadCDR(file)

SpecHistory == Init /\ [][NextHistory]_vars

\* the CDR import on its own, at every time of the clock
NextImport ==
  \/ Tick
  \/ \E file \in ImportFiles : LoadCDRNoting(file, file)

SpecImport == Init /\ [][NextImport]_vars

\* files of more rows than History may hold, of whole and short rows
ReplaceRows == CDRRows
ReplaceFiles == UNION {[1..n -> ReplaceRows] : n \in {0, 1, MaxHistory + 1}}

\* imports over a History that holds the record of a call completed live
NextReplace ==
  \/ Tick
  \/ \E event \in NewchannelEvents \cup {HangupU1} : HandleAMIEvent(event)
  \/ \E file \in ReplaceFiles : LoadCDRNoting(file, file)

SpecReplace == Init /\ [][NextReplace]_vars

\* LoadCDR on paths that cannot be opened, between events and imports
NextOpen ==
  \/ Tick
  \/ \E event \in NewchannelEvents \cup PresenceEvents : HandleAMIEvent(event)
  \/ \E file \in SmallCDRFiles : LoadCDR(file)
  \/ \E why \in {"missing", "denied"} : LoadCDROpenFails(why)

SpecOpen == Init /\ [][NextOpen]_vars

\* the change notifier: subscribers, and the calls that may signal them
NextNotify ==
  \/ Tick
  \/ \E event \in NotifyEvents : HandleAMIEvent(event)
  \/ \E file \in SmallCDRFiles : LoadCDR(file)
  \/ Subscribe
  \/ \E id \in DOMAIN chans : Unsubscribe(id)
  \/ \E id \in DOMAIN chans : Receive(id)

SpecNotify == Init /\ [][NextNotify]_vars

\* calls of several legs, between imports and with a subscriber
NextLegs ==
  \/ Tick
  \/ \E event \in LegEvents : HandleAMIEvent(event)
  \/ \E file \in SmallCDRFiles : LoadCDR(file)
  \/ Subscribe

SpecLegs == Init /\ [][NextLegs]_vars

\* calls of one leg that end in every way
NextEnd ==
  \/ Tick
  \/ \E event \in NewchannelEvents \cup EndEvents : HandleAMIEvent(event)

SpecEnd == Init /\ [][NextEnd]_vars

\* two calls and a peer, with a subscriber
NextTouch ==
  \/ Tick
  \/ \E event \in TouchEvents : HandleAMIEvent(event)
  \/ Subscribe

SpecTouch == Init /\ [][NextTouch]_vars

\* the events fed to the service while several subscribers come and go
SinkEvents == NewchannelEvents \cup {HangupU1}

\* the subscriber registry: several subscribers, each cancelling as often as
\* it likes, while events are folded
NextSubs ==
  \/ \E event \in SinkEvents : HandleAMIEvent(event)
  \/ SubscribeUpTo(MaxSinks)
  \/ \E id \in DOMAIN chans : Unsubscribe(id)
  \/ \E id \in DOMAIN chans : Receive(id)

SpecSubs == Init /\ [][NextSubs]_vars

(***************************************************************************)
(* The service under concurrent goroutines: one reads the manager          *)
(* interface and folds events, one imports a CDR file, one serves a        *)
(* WebSocket client.  s.mu is held across the steps between Lock and       *)
(* Unlock; Subscribe, the cancel function and Snapshot run wholly under    *)
(* the lock and are single steps taken while no writer holds it.           *)
(***************************************************************************)
\* a Snapshot that does not take the lock
canRLockUnguarded(m) == TRUE

\* s.mu.RLock() succeeds on mutex m
canRLock(m) == m = "free"

\* HandleAMIEvent up to s.mu.Lock(): the clock is read, the event is skipped
\* or the goroutine goes for the lock
H_Begin(event) ==
  /\ ~crashed
  /\ hnd.pc = "idle"
  /\ nEvents < MaxEvents
  /\ nEvents' = nEvents + 1
  /\ last' = [op |-> "event", ev |-> event, t |-> now, file |-> << >>]
  /\ hnd' = IF skipsEvent(Fields[event]) THEN hnd
            ELSE [pc |-> "lock", ev |-> event, t |-> now, changed |-> FALSE,
                  targets |-> {}, base |-> NewTracked]
  /\ UNCHANGED <<now, svcVars, subVars, crashed, lastLoad, nLoads, life, mu, ldr,
                 ws, ver, commits, ami, pure>>

\* s.mu.Lock() in HandleAMIEvent
H_Lock ==
  /\ ~crashed
  /\ hnd.pc = "lock"
  /\ mu = "free"
  /\ mu' = "handler"
  /\ hnd' = [hnd EXCEPT !.pc = "switch", !.base = tracked(svc)]
  /\ UNCHANGED <<now, svcVars, subVars, crashed, lastLoad, nLoads, ghostVars, ldr,
                 ws, ver, commits, ami>>

\* the switch statement of HandleAMIEvent
H_Switch ==
  /\ ~crashed
  /\ hnd.pc = "switch"
  /\ \E f \in {Fields[hnd.ev]} :
       IF panicsEvent(f)
         THEN crashed' = TRUE /\ UNCHANGED <<active, history, presence, hnd>>
         ELSE \E S \in {switchEvent(svc, f, hnd.t)} :
                /\ active' = S.active
                /\ history' = S.history
                /\ presence' = S.presence
                /\ hnd' = [hnd EXCEPT !.pc = "commit", !.changed = S.changed]
                /\ UNCHANGED crashed
  /\ UNCHANGED <<now, updated, subVars, lastLoad, nLoads, ghostVars, mu, ldr, ws,
                 ver, commits, ami>>

\* if changed { ... }, copySubsLocked and s.mu.Unlock() in HandleAMIEvent
H_Commit ==
  /\ ~crashed
  /\ hnd.pc = "commit"
  /\ \E S \in {commitEvent([svc EXCEPT !.changed = hnd.changed],
                           Fields[hnd.ev].linkedID, hnd.t)} :
       /\ active' = S.active
       /\ history' = S.history
       /\ updated' = S.updated
       /\ commits' = commits \cup {tracked(S)}
       /\ ver' = IF [tracked(S) EXCEPT !.updated = hnd.base.updated] = hnd.base
                   THEN ver ELSE ver + 1
  /\ mu' = "free"
  /\ hnd' = [hnd EXCEPT !.pc = IF hnd.changed THEN "notify" ELSE "idle",
                        !.targets = subs, !.base = NewTracked]
  /\ UNCHANGED <<now, presence, subVars, crashed, lastLoad, nLoads, ghostVars, ldr,
                 ws, ami>>

\* one turn of the loop of notify over the channels copied under the lock: a
\* send on a closed channel panics
H_Notify ==
  /\ ~crashed
  /\ hnd.pc = "notify"
  /\ IF hnd.targets = {}
       THEN hnd' = [hnd EXCEPT !.pc = "idle"] /\ UNCHANGED <<chans, crashed>>
       ELSE \E id \in hnd.targets :
              /\ hnd' = [hnd EXCEPT !.targets = @ \ {id}]
              /\ IF chans[id].closed
                   THEN crashed' = TRUE /\ UNCHANGED chans
                   ELSE /\ chans' = [chans EXCEPT ![id] = trySend(@)]
                        /\ UNCHANGED crashed
  /\ UNCHANGED <<now, svcVars, subs, nextID, lastLoad, nLoads, ghostVars, mu, ldr,
                 ws, ver, commits, ami>>

\* LoadCDR up to s.mu.Lock(): the file is read and the rows are sorted
L_Read(file) ==
  /\ ~crashed
  /\ ldr.pc = "idle"
  /\ nLoads < MaxLoads
  /\ nLoads' = nLoads + 1
  /\ IF fileHasCSVError(file)
       THEN lastLoad' = [n |-> 0, err |-> TRUE] /\ UNCHANGED ldr
       ELSE /\ \E loaded \in sortedByEnd(loadRows(file, now)) :
                 ldr' = [pc |-> "lock", loaded |-> loaded]
            /\ UNCHANGED lastLoad
  /\ UNCHANGED <<now, svcVars, subVars, crashed, ghostVars, mu, hnd, ws, ver,
                 commits, ami>>

\* s.mu.Lock() in LoadCDR
L_Lock ==
  /\ ~crashed
  /\ ldr.pc = "lock"
  /\ mu = "free"
  /\ mu' = "loader"
  /\ ldr' = [ldr EXCEPT !.pc = "store"]
  /\ UNCHANGED <<now, svcVars, subVars, crashed, lastLoad, nLoads, ghostVars, hnd,
                 ws, ver, commits, ami>>

\* s.history = loaded
L_Store ==
  /\ ~crashed
  /\ ldr.pc = "store"
  /\ history' = ldr.loaded
  /\ ldr' = [ldr EXCEPT !.pc = "prune"]
  /\ UNCHANGED <<now, active, presence, updated, subVars, crashed, lastLoad,
                 nLoads, ghostVars, mu, hnd, ws, ver, commits, ami>>

\* pruneLocked, s.updated and the deferred s.mu.Unlock() of LoadCDR
L_Finish ==
  /\ ~crashed
  /\ ldr.pc = "prune"
  /\ history' = pruneLocked(history, now)
  /\ updated' = now
  /\ lastLoad' = [n |-> Len(history'), err |-> FALSE]
  /\ commits' = commits \cup {[active |-> active, history |-> history',
                              presence |-> presence, updated |-> now]}
  /\ mu' = "free"
  /\ ldr' = IdleLoader
  /\ UNCHANGED <<now, active, presence, subVars, crashed, nLoads, ghostVars, hnd,
                 ws, ver, ami>>

\* handleCallsWS on a request that upgradeWebSocket accepts: Subscribe
WS_Accept(req) ==
  /\ ~crashed
  /\ Upgraded[req].ok
  /\ ws.pc = "none"
  /\ mu = "free"
  /\ nextID < MaxSubs
  /\ nextID' = nextID + 1
  /\ subs' = subs \cup {nextID}
  /\ chans' = chans @@ (nextID :> [buf |-> 0, closed |-> FALSE])
  /\ ws' = [ws EXCEPT !.pc = "write", !.id = nextID, !.req = req,
                      !.status = Upgraded[req].status, !.conn = "open"]
  /\ UNCHANGED <<now, svcVars, crashed, lastLoad, nLoads, ghostVars, mu, hnd, ldr,
                 ver, commits, ami>>

\* handleCallsWS after the upgrade: Subscribe
WS_Subscribe == WS_Accept(PlainRequest)

\* handleCallsWS on a request that upgradeWebSocket refuses: the error
\* response is written and the handler returns
WS_Reject(req) ==
  /\ ~crashed
  /\ ~Upgraded[req].ok
  /\ ws' = [ws EXCEPT !.req = req, !.status = Upgraded[req].status]
  /\ UNCHANGED <<now, svcVars, subVars, crashed, lastLoad, nLoads, ghostVars, mu,
                 hnd, ldr, ver, commits, ami>>

\* writeCallsPayloadFrame: a Snapshot is taken and written to the client
WS_Write ==
  /\ ~crashed
  /\ ws.pc = "write"
  /\ canRLock(mu)
  /\ ws' = [ws EXCEPT !.pc = "loop", !.seen = ver, !.snap = <<snapshotOf(svc)>>,
                      !.out = Append(@, OpText)]
  /\ UNCHANGED <<now, svcVars, subVars, crashed, lastLoad, nLoads, ghostVars, mu,
                 hnd, ldr, ver, commits, ami>>

\* a case <-sub that takes the signal and writes nothing
WS_SignalNoWrite ==
  /\ ~crashed
  /\ ws.pc = "loop"
  /\ chans[ws.id].buf = 1
  /\ chans' = [chans EXCEPT ![ws.id].buf = 0]
  /\ ws' = [ws EXCEPT !.signals = @ + 1]
  /\ UNCHANGED <<now, svcVars, subs, nextID, crashed, lastLoad, nLoads, ghostVars,
                 mu, hnd, ldr, ver, commits, ami>>

\* case <-sub in the loop of handleCallsWS
WS_Signal ==
  /\ ~crashed
  /\ ws.pc = "loop"
  /\ chans[ws.id].buf = 1
  /\ chans' = [chans EXCEPT ![ws.id].buf = 0]
  /\ ws' = [ws EXCEPT !.pc = "write", !.signals = @ + 1]
  /\ UNCHANGED <<now, svcVars, subs, nextID, crashed, lastLoad, nLoads, ghostVars,
                 mu, hnd, ldr, ver, commits, ami>>

\* case <-pingTicker.C in the loop of handleCallsWS
WS_Ping ==
  /\ ~crashed
  /\ ws.pc = "loop"
  /\ Cardinality({i \in 1..Len(ws.out) : ws.out[i] = OpPing}) < MaxPings
  /\ ws' = [ws EXCEPT !.out = Append(@, OpPing)]
  /\ UNCHANGED <<now, svcVars, subVars, crashed, lastLoad, nLoads, ghostVars, mu,
                 hnd, ldr, ver, commits, ami>>

\* a handleCallsWS that returns without calling the cancel function
WS_ReturnKeepsSink ==
  /\ ~crashed
  /\ ws.pc \in {"write", "loop"}
  /\ ws' = [ws EXCEPT !.pc = "done", !.conn = "closed"]
  /\ UNCHANGED <<now, svcVars, subVars, crashed, lastLoad, nLoads, ghostVars,
                 mu, hnd, ldr, ver, commits, ami>>

\* handleCallsWS returns, on a done request context or a failed write: the
\* deferred cancel function runs, then the deferred conn.Close()
WS_Return ==
  /\ ~crashed
  /\ ws.pc \in {"write", "loop"}
  /\ mu = "free"
  /\ subs' = subs \ {ws.id}
  /\ chans' = [chans EXCEPT ![ws.id].closed = TRUE]
  /\ ws' = [ws EXCEPT !.pc = "done", !.conn = "closed"]
  /\ UNCHANGED <<now, svcVars, nextID, crashed, lastLoad, nLoads, ghostVars, mu,
                 hnd, ldr, ver, commits, ami>>

NextConc ==
  \/ \E event \in ConcEvents : H_Begin(event)
  \/ H_Lock
  \/ H_Switch
  \/ H_Commit
  \/ H_Notify
  \/ \E file \in SmallCDRFiles : L_Read(file)
  \/ L_Lock
  \/ L_Store
  \/ L_Finish
  \/ WS_Subscribe
  \/ WS_Write
  \/ WS_Signal
  \/ WS_Return

SpecConc == Init /\ [][NextConc]_vars

\* the goroutines run whenever they can; events, files and the client's
\* departure come when they come
SpecConcFair ==
  /\ SpecConc
  /\ WF_vars(H_Lock)
  /\ WF_vars(H_Switch)
  /\ WF_vars(H_Commit)
  /\ WF_vars(H_Notify)
  /\ WF_vars(L_Lock)
  /\ WF_vars(L_Store)
  /\ WF_vars(L_Finish)
  /\ WF_vars(WS_Write)
  /\ WF_vars(WS_Signal)

\* writeWebSocketFrame on an opcode and a payload
WriteFrame(opcode, payload) ==
  /\ ws' = [ws EXCEPT !.wire = writeWebSocketFrame(opcode, payload)]
  /\ UNCHANGED <<now, svcVars, subVars, crashed, lastLoad, nLoads, ghostVars, mu,
                 hnd, ldr, ver, commits, ami>>

\* the frame encoder on its own
NextFrame == \E opcode \in Opcodes : \E payload \in Payloads : WriteFrame(opcode, payload)

SpecFrame == Init /\ [][NextFrame]_vars

(***************************************************************************)
(* Functions on their own                                                  *)
(***************************************************************************)
\* the dial strings of TestParseDialString
Dial8081 == <<"P","J","S","I","P","/","8","0","8","1",",","3","0">>
Dial2601 == <<"P","J","S","I","P","/","2","6","0","1","&","P","J","S","I","P","/",
              "2","6","0","2",",","2","0">>

\* the dial strings parseDialString is tried on: every string of up to
\* MaxDialLen characters of DialAlphabet, and those of the test
DialAlphabet == {"a", "1", "/", ",", "&", " "}
DialStrings ==
  UNION {[1..n -> DialAlphabet] : n \in 0..MaxDialLen} \cup {Dial8081, Dial2601}

\* parseDialString on a dial string; the function keeps no state, and a
\* behaviour applies it once
ParseDial(raw) ==
  /\ pure.fn = "none"
  /\ pure' = [fn |-> "parseDialString", arg |-> raw, out |-> parseDialString(raw)]
  /\ UNCHANGED <<now, svcVars, subVars, crashed, lastLoad, nLoads, nEvents, last,
                 life, concVars, ami>>

\* the status strings of the three families, as events carry them, one of
\* no family, and the counts of active channels
InUseStatuses ==
  {<<"I","n"," ","u","s","e">>,
   <<"B","u","s","y">>,
   <<"R","i","n","g","i","n","g">>,
   <<"D","i","a","l","i","n","g">>}
ConnectedStatuses ==
  {<<"R","e","a","c","h","a","b","l","e">>,
   <<"O","n","l","i","n","e">>,
   <<"R","e","g","i","s","t","e","r","e","d">>,
   <<"A","v","a","i","l","a","b","l","e">>,
   <<"O","K">>,
   <<"R","e","a","d","y">>,
   <<"N","o","t"," ","i","n"," ","u","s","e">>}
DisconnectedStatuses ==
  {<<"U","n","r","e","a","c","h","a","b","l","e">>,
   <<"O","f","f","l","i","n","e">>,
   <<"U","n","a","v","a","i","l","a","b","l","e">>,
   <<"L","a","g","g","e","d">>,
   <<"R","e","m","o","v","e","d">>,
   <<"I","n","v","a","l","i","d">>,
   <<"F","a","i","l","e","d">>}
OtherStatuses == {Empty, <<"P","a","u","s","e","d">>}
ChannelCounts == {Empty, <<"0">>, <<"2">>}

statusEvent(status, channels) ==
  mkEvent(EvPeerStatus, Fld(EndpointNameKeys, PeerName) @@ Fld(PeerStatusKeys, status)
                        @@ Fld(ActiveChannelsKeys, channels))

\* presenceStateFor on a presence event of a status and a channel count
PresenceState(status, channels) ==
  /\ pure.fn = "none"
  /\ \E event \in {statusEvent(status, channels)} :
       pure' = [fn |-> "presenceStateFor", arg |-> <<status, channels>>,
                out |-> presenceStateFor(eventTypeOf(event), event)[1]]
  /\ UNCHANGED <<now, svcVars, subVars, crashed, lastLoad, nLoads, nEvents, last,
                 life, concVars, ami>>

\* the identifier fields in the order of linkedIDFor, and a value for each
\* of them and for each of the channel fields
IdKeyTables ==
  << LinkedidKeys, DestLinkedidKeys, SrcLinkedidKeys,
     UniqueidKeys, DestUniqueidKeys, SrcUniqueidKeys >>
IdValues ==
  << <<"i","1">>, <<"i","2">>, <<"i","3">>, <<"i","4">>, <<"i","5">>, <<"i","6">> >>
ChanValues == << <<"c","1">>, <<"c","2">>, <<"c","3">> >>

\* an event with the identifiers of ids, their keys in one spelling (one of
\* the three of the code, or 0: lower case), and the channel fields of names
\* (0: absent, 1: spelled as in the code, 2: lower case)
keyEvent(ids, spelling, names) ==
  LET keyIn(keys) == IF spelling = 0 THEN ToLower(keys[1]) ELSE keys[spelling]
      idPart(i) == IF i \in ids THEN (keyIn(IdKeyTables[i]) :> IdValues[i])
                                ELSE EmptyMap
      chanPart(j) ==
        IF names[j] = 0 THEN EmptyMap
        ELSE IF names[j] = 1 THEN (AnyChannelKeys[j] :> ChanValues[j])
        ELSE (ToLower(AnyChannelKeys[j]) :> ChanValues[j])
  IN  idPart(1) @@ idPart(2) @@ idPart(3) @@ idPart(4) @@ idPart(5) @@ idPart(6)
        @@ chanPart(1) @@ chanPart(2) @@ chanPart(3)

\* events with any of the identifiers and a channel, and events with none
\* of the identifiers and any of the channel fields
KeyEvents ==
  {keyEvent(ids, spelling, <<1, 0, 0>>) :
     ids \in SUBSET (1..6), spelling \in 0..3}
    \cup {keyEvent({}, 1, names) : names \in [1..3 -> 0..2]}

\* linkedIDFor on an event
LinkKey(event) ==
  /\ pure.fn = "none"
  /\ pure' = [fn |-> "linkedIDFor", arg |-> event, out |-> linkedIDFor(event)]
  /\ UNCHANGED <<now, svcVars, subVars, crashed, lastLoad, nLoads, nEvents, last,
                 life, concVars, ami>>

\* the readings of a timestamp column: one that is not in the layout, and
\* wall-clock readings from the start of the clock to beyond what a Duration
\* can measure from it
StampReadings == {BadStamp} \cup (0..(MaxDuration + 2 * LocalOffset))

\* parseCDRTime on a reading, at a time of the clock
ParseTime(raw, t) ==
  /\ pure.fn = "none"
  /\ pure' = [fn |-> "parseCDRTime", arg |-> <<raw, t>>, out |-> parseCDRTime(raw, t)]
  /\ UNCHANGED <<now, svcVars, subVars, crashed, lastLoad, nLoads, nEvents, last,
                 life, concVars, ami>>

\* upgradeWebSocket on a request
Handshake(req) ==
  /\ pure.fn = "none"
  /\ pure' = [fn |-> "upgradeWebSocket", arg |-> req, out |-> upgradeResponse(req)]
  /\ UNCHANGED <<now, svcVars, subVars, crashed, lastLoad, nLoads, nEvents, last,
                 life, concVars, ami>>

NextPure ==
  \/ \E raw \in DialStrings : ParseDial(raw)
  \/ \E req \in HandshakeRequests : Handshake(req)
  \/ \E status \in InUseStatuses \cup ConnectedStatuses \cup DisconnectedStatuses
                    \cup OtherStatuses :
       \E channels \in ChannelCounts : PresenceState(status, channels)
  \/ \E event \in KeyEvents : LinkKey(event)
  \/ \E raw \in StampReadings : \E t \in 0..MaxTime : ParseTime(raw, t)

SpecPure == Init /\ [][NextPure]_vars

\* the WebSocket endpoint: one client served while events are folded
NextWS ==
  \/ \E event \in ConcEvents : H_Begin(event)
  \/ H_Lock
  \/ H_Switch
  \/ H_Commit
  \/ H_Notify
  \/ \E req \in Requests : WS_Accept(req)
  \/ \E req \in Requests : WS_Reject(req)
  \/ WS_Write
  \/ WS_Signal
  \/ WS_Ping
  \/ WS_Return

SpecWS == Init /\ [][NextWS]_vars

(***************************************************************************)
(* The connection manager: RunAMI, against a manager interface that sends  *)
(* and closes when it likes, and a context that is cancelled when it is    *)
(***************************************************************************)
\* ami: [pc, conn, watcher, ctx, inbox, peer, dials, sent]
\*   pc      where RunAMI is: "start" (about to call runAMIConnection),
\*           "dialing", "banner", "login", "waitLogin", "inventory", "read",
\*           "after" (runAMIConnection has returned), "delay", "returned"
\*   conn    the socket of the attempt: "none", "open" or "closed"
\*   watcher the goroutine that closes the socket on cancellation: "none",
\*           "waiting" or "done"
\*   ctx     the context is cancelled
\*   inbox   what the remote has sent and the reader has not read
\*   peer    "up", or "gone" once the remote has closed the connection
\*   dials, sent  the connections dialed and the messages sent so far
\* the blocks the remote sends, by their Response header: "Success",
\* "SUCCESS", "Error", or none at all (an event)
MsgKinds == {"success", "SUCCESS", "failure", "event"}

\* the blocks of a feed of events: responses, a channel-created event and
\* the hangup of its channel
FeedKinds == {"success", "failure", "newchannel", "hangup"}

AMISuccess == <<"S", "u", "c", "c", "e", "s", "s">>

ResponseOf ==
  [kind \in MsgKinds \cup FeedKinds |->
     CASE kind = "success" -> AMISuccess
       [] kind = "SUCCESS" -> <<"S", "U", "C", "C", "E", "S", "S">>
       [] kind = "failure" -> <<"E", "r", "r", "o", "r">>
       [] OTHER -> Empty]

\* the event a block carries, by its kind: none in a response; "event" is an
\* event without identifiers
EventOf ==
  [kind \in MsgKinds \cup FeedKinds |->
     CASE kind = "event" -> mkEvent(EvNewchannel, Fld(CallerIDNumKeys, Num26))
       [] kind = "newchannel" ->
            mkEvent(EvNewchannel, Fld(LinkedidKeys, L1) @@ Fld(UniqueidKeys, U1)
                                  @@ Fld(CallerIDNumKeys, Num26) @@ Fld(ExtenKeys, Ext27))
       [] kind = "hangup" -> HangupU1
       [] OTHER -> EmptyMap]

\* msg["Event"] != ""
hasEvent(msg) == EventKeys[1] \in DOMAIN msg /\ msg[EventKeys[1]] # Empty

\* a waitAMILogin that takes a block without Response for a refusal
waitAMILoginStrict(resp) ==
  IF resp # Empty /\ EqualFold(resp, AMISuccess) THEN "ok" ELSE "failed"

\* what waitAMILogin does with a block whose Response is resp: "ok" (return
\* nil), "failed" (return the login error) or "skip" (read the next block)
waitAMILogin(resp) ==
  IF resp # Empty
    THEN IF EqualFold(resp, AMISuccess) THEN "ok" ELSE "failed"
    ELSE "skip"

\* a runAMIConnection that returns without closing its socket
connectionEndedLeavesOpen(a) ==
  [a EXCEPT !.pc = "after", !.watcher = IF @ = "waiting" THEN "done" ELSE @]

\* the deferred conn.Close() and close(closeConn) of runAMIConnection
connectionEnded(a) ==
  [a EXCEPT !.pc = "after", !.conn = "closed",
            !.watcher = IF @ = "waiting" THEN "done" ELSE @]

\* a read on the socket fails: nothing is buffered and the remote or the
\* watcher has closed the connection
readFails(a) == a.inbox = << >> /\ (a.peer = "gone" \/ a.conn = "closed")

\* the context handed to RunAMI is cancelled
AMI_Cancel ==
  /\ ~ami.ctx
  /\ ami' = [ami EXCEPT !.ctx = TRUE]
  /\ UNCHANGED restVars

\* the remote sends a message, while fewer than room are unread and fewer
\* than most were sent
Remote_SendUpTo(kind, room, most) ==
  /\ ami.conn = "open"
  /\ ami.peer = "up"
  /\ Len(ami.inbox) < room
  /\ ami.sent < most
  /\ ami' = [ami EXCEPT !.inbox = Append(@, kind), !.sent = @ + 1]
  /\ UNCHANGED restVars

Remote_Send(kind) == Remote_SendUpTo(kind, 1, MaxMsgs)

\* the remote closes the connection
Remote_Close ==
  /\ ami.conn = "open"
  /\ ami.peer = "up"
  /\ ami' = [ami EXCEPT !.peer = "gone"]
  /\ UNCHANGED restVars

\* dialer.DialContext is called: it fails at once on a cancelled context
AMI_Dial ==
  /\ ami.pc = "start"
  /\ IF ami.ctx
       THEN ami' = [ami EXCEPT !.pc = "after"]
       ELSE /\ ami.dials < MaxDials
            /\ ami' = [ami EXCEPT !.pc = "dialing", !.dials = @ + 1]
  /\ UNCHANGED restVars

\* dialer.DialContext returns: a connection, or an error, and nothing but
\* an error once the context is cancelled
AMI_Dialed ==
  /\ ami.pc = "dialing"
  /\ \E ok \in IF ami.ctx THEN {FALSE} ELSE BOOLEAN :
       ami' = IF ok
                THEN [ami EXCEPT !.pc = "banner", !.conn = "open", !.peer = "up",
                                 !.inbox = << >>, !.watcher = "none"]
                ELSE [ami EXCEPT !.pc = "after"]
  /\ UNCHANGED restVars

\* reader.ReadString('\n') for the banner
AMI_Banner ==
  /\ ami.pc = "banner"
  /\ \/ /\ ami.inbox # << >>
        /\ ami' = [ami EXCEPT !.pc = "login", !.inbox = Tail(@)]
     \/ /\ readFails(ami)
        /\ ami' = connectionEnded(ami)
  /\ UNCHANGED restVars

\* writeAMILogin
AMI_Login ==
  /\ ami.pc = "login"
  /\ ami' = IF ami.peer = "up" /\ ami.conn = "open"
              THEN [ami EXCEPT !.pc = "waitLogin"]
              ELSE connectionEnded(ami)
  /\ UNCHANGED restVars

\* waitAMILogin: one readAMIMessage
AMI_WaitLogin ==
  /\ ami.pc = "waitLogin"
  /\ \/ /\ ami.inbox # << >>
        /\ \E outcome \in {waitAMILogin(ResponseOf[ami.inbox[1]])} :
             ami' = CASE outcome = "ok" ->
                           [ami EXCEPT !.pc = "inventory", !.inbox = Tail(@)]
                      [] outcome = "failed" ->
                           connectionEnded([ami EXCEPT !.inbox = Tail(@)])
                      [] OTHER -> [ami EXCEPT !.inbox = Tail(@)]
     \/ /\ readFails(ami)
        /\ ami' = connectionEnded(ami)
  /\ UNCHANGED restVars

\* writeAMIPJSIPShowEndpoints, and the start of the goroutine that waits for
\* ctx.Done() or closeConn
AMI_Inventory ==
  /\ ami.pc = "inventory"
  /\ ami' = IF ami.peer = "up" /\ ami.conn = "open"
              THEN [ami EXCEPT !.pc = "read", !.watcher = "waiting"]
              ELSE connectionEnded(ami)
  /\ UNCHANGED restVars

\* s.HandleAMIEvent(msg) called by the read loop
handOver(event) ==
  \E f \in {Fields[event]} :
    IF skipsEvent(f) THEN UNCHANGED restVars
    ELSE IF panicsEvent(f)
      THEN /\ crashed' = TRUE
           /\ UNCHANGED <<now, svcVars, subVars, lastLoad, nLoads, ghostVars, concVars>>
    ELSE \E S \in {foldEvent(svc, f, now)} :
           /\ active' = S.active
           /\ history' = S.history
           /\ presence' = S.presence
           /\ updated' = S.updated
           /\ chans' = IF S.changed THEN notify(chans, subs) ELSE chans
           /\ UNCHANGED <<now, subs, nextID, crashed, lastLoad, nLoads, ghostVars,
                          concVars>>

\* a read loop that hands over the block read last
AMI_ReadNewest ==
  /\ ami.pc = "read"
  /\ \/ /\ ami.inbox # << >>
        /\ ami' = [ami EXCEPT !.inbox = Tail(@)]
        /\ IF hasEvent(EventOf[ami.inbox[Len(ami.inbox)]])
             THEN handOver(EventOf[ami.inbox[Len(ami.inbox)]])
             ELSE UNCHANGED restVars
     \/ /\ readFails(ami)
        /\ ami' = connectionEnded(ami)
        /\ UNCHANGED restVars

\* one turn of the read loop: readAMIMessage, and a message with an Event
\* goes to HandleAMIEvent
AMI_Read ==
  /\ ami.pc = "read"
  /\ \/ /\ ami.inbox # << >>
        /\ ami' = [ami EXCEPT !.inbox = Tail(@)]
        /\ IF hasEvent(EventOf[Head(ami.inbox)])
             THEN handOver(EventOf[Head(ami.inbox)])
             ELSE UNCHANGED restVars
     \/ /\ readFails(ami)
        /\ ami' = connectionEnded(ami)
        /\ UNCHANGED restVars

\* case <-ctx.Done() of the watcher goroutine: conn.Close()
AMI_Watch ==
  /\ ami.watcher = "waiting"
  /\ ami.ctx
  /\ ami' = [ami EXCEPT !.watcher = "done", !.conn = "closed"]
  /\ UNCHANGED restVars

\* a RunAMI that hands the error of a failed attempt back to its caller
AMI_AfterReturns ==
  /\ ami.pc = "after"
  /\ ami' = [ami EXCEPT !.pc = "returned"]
  /\ UNCHANGED restVars

\* RunAMI after runAMIConnection: if ctx.Err() != nil { return nil }
AMI_After ==
  /\ ami.pc = "after"
  /\ ami' = [ami EXCEPT !.pc = IF ami.ctx THEN "returned" ELSE "delay"]
  /\ UNCHANGED restVars

\* the select of RunAMI on ctx.Done() and time.After(cfg.ReconnectDelay)
AMI_Delay ==
  /\ ami.pc = "delay"
  /\ \E fired \in IF ami.ctx THEN {"ctx", "timer"} ELSE {"timer"} :
       ami' = [ami EXCEPT !.pc = IF fired = "ctx" THEN "returned" ELSE "start"]
  /\ UNCHANGED restVars

NextAMI ==
  \/ AMI_Cancel
  \/ \E kind \in MsgKinds : Remote_Send(kind)
  \/ Remote_Close
  \/ AMI_Dial
  \/ AMI_Dialed
  \/ AMI_Banner
  \/ AMI_Login
  \/ AMI_WaitLogin
  \/ AMI_Inventory
  \/ AMI_Read
  \/ AMI_Watch
  \/ AMI_After
  \/ AMI_Delay

\* the manager fed with events: up to InboxRoom blocks wait unread
NextFeed ==
  \/ AMI_Cancel
  \/ \E kind \in FeedKinds : Remote_SendUpTo(kind, InboxRoom, MaxBlocks)
  \/ Remote_Close
  \/ AMI_Dial
  \/ AMI_Dialed
  \/ AMI_Banner
  \/ AMI_Login
  \/ AMI_WaitLogin
  \/ AMI_Inventory
  \/ AMI_Read
  \/ AMI_Watch
  \/ AMI_After
  \/ AMI_Delay
  \/ Subscribe

SpecFeed == Init /\ [][NextFeed]_vars

\* the goroutines of the manager run whenever they can; the remote and the
\* cancellation come when they come
SpecAMI ==
  /\ Init
  /\ [][NextAMI]_vars
  /\ WF_vars(AMI_Dial)
  /\ WF_vars(AMI_Dialed)
  /\ WF_vars(AMI_Banner)
  /\ WF_vars(AMI_Login)
  /\ WF_vars(AMI_WaitLogin)
  /\ WF_vars(AMI_Inventory)
  /\ WF_vars(AMI_Read)
  /\ WF_vars(AMI_Watch)
  /\ WF_vars(AMI_After)
  /\ WF_vars(AMI_Delay)

(***************************************************************************)
(* Properties of the call state machine and of the history store           *)
(***************************************************************************)
\* the parties and the cause text as an event carries them, computed once
Carried ==
  [event \in Events |->
     [caller   |-> eventValue(event, CallerIDNumKeys),
      exten    |-> eventValue(event, ExtenKeys),
      causeTxt |-> eventValue(event, CauseTxtKeys),
      dialFrom |-> IF eventValue(event, CallerIDNumKeys) # Empty
                     THEN eventValue(event, CallerIDNumKeys)
                     ELSE channelPeer(eventValue(event, SrcChannelKeys)),
      dialTo   |-> IF parseDialString(eventValue(event, DialStringKeys)) # Empty
                     THEN parseDialString(eventValue(event, DialStringKeys))
                     ELSE channelPeer(eventValue(event, DestChannelKeys))]]

C2_Pruned ==
  /\ \A i \in 1..Len(history) : history[i].End >= updated - Retention
  /\ Len(history) <= MaxHistory
  /\ IsSortedNewestFirst(history)

\* the end column of the row reads older than the retention at time t, in
\* UTC and so in local time too
rowIsOld(row, t) == row.cols >= 17 /\ row.end >= 0 /\ row.end < t - Retention

\* C19: when LoadCDR has returned without error, no History record ends
\* before the time of the import minus the retention, and no record has the
\* end of a row of the file that reads older than that, wherever the row
\* stands in the file and however many rows the file has.
C19_RetentionAtImport ==
  (last.op = "load" /\ ~lastLoad.err) =>
    /\ \A i \in 1..Len(history) : history[i].End >= last.t - Retention
    /\ \A j \in 1..Len(last.file) :
         rowIsOld(last.file[j], last.t) =>
           \A i \in 1..Len(history) :
             history[i].End \notin {last.file[j].end, last.file[j].end - LocalOffset}

\* a file of two rows has been imported, the first older than the retention
\* and the second not: History holds the record of the second only
C19_Witness ==
  /\ last.op = "load"
  /\ ~lastLoad.err
  /\ Len(last.file) = 2
  /\ rowIsOld(last.file[1], last.t)
  /\ Len(history) = 1
  /\ history[1].End = last.file[2].end

\* the text of s before the first c, all of s when c is not in it
textBefore(s, c) ==
  LET n == CHOOSE k \in 0..Len(s) :
             /\ \A i \in 1..k : s[i] # c
             /\ k = Len(s) \/ s[k + 1] = c
  IN  SubSeq(s, 1, n)

\* the text of s after the last c, all of s when c is not in it
textAfterLast(s, c) ==
  LET n == CHOOSE k \in 0..Len(s) :
             /\ \A i \in (k + 1)..Len(s) : s[i] # c
             /\ k = 0 \/ s[k] = c
  IN  SubSeq(s, n + 1, Len(s))

\* C22, as stated: parseDialString returns the text before the first comma,
\* cut before the first '&', and of that the text after the last '/'.
C22_AsStated ==
  pure.fn = "parseDialString" =>
    pure.out = textAfterLast(textBefore(textBefore(pure.arg, ","), "&"), "/")

\* C22, amended: parseDialString returns, of its argument without leading
\* and trailing white space, the text before the first comma, cut before the
\* first '&', and of that the text after the last '/', again without leading
\* and trailing white space; the empty string for an empty or blank argument.
C22_DialTarget ==
  pure.fn = "parseDialString" =>
    /\ pure.out =
         TrimSpace(textAfterLast(
           textBefore(textBefore(TrimSpace(pure.arg), ","), "&"), "/"))
    /\ TrimSpace(pure.arg) = Empty => pure.out = Empty

\* "PJSIP/2601&PJSIP/2602,20" has been parsed to "2601"
C22_Witness ==
  /\ pure.fn = "parseDialString"
  /\ pure.arg = Dial2601
  /\ pure.out = <<"2","6","0","1">>

\* C23: the accept token of every 101 response is the base64 encoding of the
\* SHA-1 digest of the request's handshake key followed by the GUID
\* 258EAFA5-E914-47DA-95CA-C5AB0DC85B11; no other response carries a token.
C23_AcceptToken ==
  pure.fn = "upgradeWebSocket" =>
    IF pure.out.status = StatusSwitching
      THEN pure.out.accept =
             base64Encode(sha1Sum(bytesOf(
               TrimSpace(pure.arg.key) \o
               <<"2","5","8","E","A","F","A","5","-","E","9","1","4","-","4","7","D",
                "A","-","9","5","C","A","-","C","5","A","B","0","D","C","8","5","B",
                "1","1">>)))
      ELSE pure.out.accept = Empty

\* the sample handshake of RFC 6455: the key dGhlIHNhbXBsZSBub25jZQ== has been
\* answered with s3pPLMBiTxaQ9kYGzzhZRbK+xOo=
C23_Witness ==
  /\ pure.fn = "upgradeWebSocket"
  /\ pure.arg.key = KeySample
  /\ pure.out.status = StatusSwitching
  /\ pure.out.accept =
       <<"s","3","p","P","L","M","B","i","T","x","a","Q","9","k","Y","G","z",
         "z","h","Z","R","b","K","+","x","O","o","=">>

\* the records of hist that pruneLocked keeps at time t when room is left for
\* room records
keptAt(hist, t, room) ==
  LET kept == SelectSeq(hist, LAMBDA h : h.End >= t - Retention)
  IN  SubSeq(kept, 1, MinOf({Len(kept), room}))

\* the step folds a hangup for a link key that has an active call
hangupOfActive ==
  /\ nEvents' = nEvents + 1
  /\ Fields[last'.ev].type = tHangup
  /\ Fields[last'.ev].linkedID \in DOMAIN active

\* the hangup f at time t of the active call has taken the channel of f, and
\* no other, off the call; with legs left the call stays and History is
\* hist0; with none left the call is gone and History is its record (id,
\* parties and start of the call) followed by hist1
hangupDone(f, call, t, hist0, hist1) ==
  IF call.channels \ {f.channel} # {}
    THEN /\ f.linkedID \in DOMAIN active'
         /\ active'[f.linkedID].channels = call.channels \ {f.channel}
         /\ history' = hist0
    ELSE /\ f.linkedID \notin DOMAIN active'
         /\ history' # << >>
         /\ history'[1].ID = call.ID
         /\ history'[1].From = call.From
         /\ history'[1].To = call.To
         /\ history'[1].Start = call.Start
         /\ Tail(history') = hist1

\* C24, as stated: a hangup for a link key with an active call removes only
\* the triggering channel from the call's legs; if legs remain the call stays
\* in Active and History is unchanged; if none remains, one record with the
\* call's id, parties and start time is prepended to History and the call is
\* deleted from Active in the same step.
C24_AsStated ==
  [][hangupOfActive =>
       hangupDone(Fields[last'.ev], active[Fields[last'.ev].linkedID], now,
                  history, history)]_vars

\* C24, amended: as above, but History is pruned in every such step that
\* names a channel: with legs left History is what pruneLocked keeps of it,
\* and with none left the record is followed by what pruneLocked keeps of the
\* earlier records, up to the maximum count less one.
C24_HangupRemovesLeg ==
  [][hangupOfActive =>
       hangupDone(Fields[last'.ev], active[Fields[last'.ev].linkedID], now,
                  IF Fields[last'.ev].channel = Empty THEN history
                  ELSE keptAt(history, now, MaxHistory),
                  keptAt(history, now, MaxHistory - 1))]_vars

\* a hangup of one leg has left the call in Active on its other leg, after
\* an import, at a time when the imported record has expired
C24_Witness ==
  /\ last.op = "event"
  /\ Fields[last.ev].type = tHangup
  /\ Fields[last.ev].channel = U1
  /\ L1 \in DOMAIN active
  /\ active[L1].channels = {U2}
  /\ nLoads = 1
  /\ lastLoad.n = 1
  /\ history = << >>

\* C25: a hangup or bridge-left event for a link key that has no active call
\* leaves Active, History, Presence and the updated timestamp as they were
\* and signals no subscriber.
C25_NoCallNoEffect ==
  [][(/\ nEvents' = nEvents + 1
      /\ Fields[last'.ev].type \in {tHangup, tBridgeleave}
      /\ Fields[last'.ev].linkedID \notin DOMAIN active)
     => /\ active' = active
        /\ history' = history
        /\ presence' = presence
        /\ updated' = updated
        /\ chans' = chans]_vars

\* a second hangup has come after the one that ended the call, at a later
\* time: History holds the one record of the call, the updated timestamp is
\* the first hangup's, and the subscriber that came in between has no signal
C25_Witness ==
  /\ last.op = "event"
  /\ Fields[last.ev].type = tHangup
  /\ Fields[last.ev].linkedID \notin DOMAIN active
  /\ Len(history) = 1
  /\ history[1].ID = Fields[last.ev].linkedID
  /\ updated = history[1].End
  /\ updated < last.t
  /\ subs # {}
  /\ \A sub \in subs : chans[sub].buf = 0

\* C26: no step changes a from-party or a to-party that is not empty, for as
\* long as the call stays in Active, and the History record made when the
\* call leaves Active carries the parties the call had.
C26_FirstWriterWins ==
  [][\A k \in DOMAIN active :
       IF k \in DOMAIN active'
         THEN /\ active[k].From # Empty => active'[k].From = active[k].From
              /\ active[k].To # Empty => active'[k].To = active[k].To
         ELSE /\ history' # << >>
              /\ history'[1].ID = k
              /\ history'[1].From = active[k].From
              /\ history'[1].To = active[k].To]_vars

\* a channel-created event that carries other parties than the call's has
\* been folded, and the call has the parties written first
C26_Witness ==
  /\ last.op = "event"
  /\ Fields[last.ev].type = tNewchannel
  /\ Fields[last.ev].linkedID \in DOMAIN active
  /\ Fields[last.ev].ncFrom # Empty
  /\ Fields[last.ev].ncTo # Empty
  /\ active[Fields[last.ev].linkedID].From \notin {Empty, Fields[last.ev].ncFrom}
  /\ active[Fields[last.ev].linkedID].To \notin {Empty, Fields[last.ev].ncTo}

\* the step folds a bridge-left for a link key that has an active call
bridgeLeftOfActive ==
  /\ nEvents' = nEvents + 1
  /\ Fields[last'.ev].type = tBridgeleave
  /\ Fields[last'.ev].linkedID \in DOMAIN active

\* the bridge-left on key at time t has set the call to ringing and left its
\* legs, its parties and the other calls alone, and History is hist
bridgeLeftDone(key, t, hist) ==
  /\ DOMAIN active' = DOMAIN active
  /\ active'[key] = [active[key] EXCEPT !.State = vRinging, !.Updated = t]
  /\ \A k \in DOMAIN active \ {key} : active'[k] = active[k]
  /\ history' = hist

\* C27, as stated: a bridge-left event for a link key that has an active
\* call sets the call's state to ringing and leaves its legs and parties
\* unchanged; the call stays in Active and History is unchanged, whichever
\* channel the event names.
C27_AsStated ==
  [][bridgeLeftOfActive =>
       bridgeLeftDone(Fields[last'.ev].linkedID, now, history)]_vars

\* C27, amended: as above, but History is pruned in the step: it is what
\* pruneLocked keeps of it at the time of the event.
C27_BridgeLeftRinging ==
  [][bridgeLeftOfActive =>
       bridgeLeftDone(Fields[last'.ev].linkedID, now,
                      keptAt(history, now, MaxHistory))]_vars

\* a bridge-left that names a leg of the call has been folded: the call is
\* ringing and has the leg
C27_Witness ==
  /\ last.op = "event"
  /\ Fields[last.ev].type = tBridgeleave
  /\ Fields[last.ev].linkedID \in DOMAIN active
  /\ active[Fields[last.ev].linkedID].State = vRinging
  /\ Fields[last.ev].channel \in active[Fields[last.ev].linkedID].channels
  /\ Cardinality(active[Fields[last.ev].linkedID].channels) = 2

\* what a hangup carries in Cause-txt, Cause and DialStatus, computed once
Causes ==
  [event \in EndEvents |-> << eventValue(event, CauseTxtKeys),
                              eventValue(event, CauseKeys),
                              eventValue(event, DialStatusKeys) >>]

\* the classification of a set of lower-cased texts, by the words they hold
classOf(texts) ==
  IF \E x \in texts : ContainsAny(x, ErrorWords) THEN vError
  ELSE IF \E x \in texts : ContainsAny(x, NoAnswerWords) THEN vNoAnswer
  ELSE IF \E x \in texts : ContainsAny(x, AnsweredWords) THEN vAnswered
  ELSE vCompleted

\* the step folds a hangup that ends the call of its link key
endOfCall ==
  /\ nEvents' = nEvents + 1
  /\ last'.ev \in EndEvents
  /\ Fields[last'.ev].linkedID \in DOMAIN active
  /\ Fields[last'.ev].linkedID \notin DOMAIN active'

\* C28, as stated: the final classification of a completed call is computed
\* from the lower-cased cause, cause-text and dial-status of the hangup taken
\* together: error if they hold a failure word, otherwise no-answer if they
\* hold a no-answer word, otherwise answered if they hold a success word,
\* otherwise completed.
C28_AsStated ==
  [][endOfCall =>
       /\ history' # << >>
       /\ history'[1].State =
            classOf({ToLower(Causes[last'.ev][i]) : i \in 1..3})]_vars

\* C28, amended: the classification is computed from one field only, the
\* first non-empty of cause-text, cause and dial-status, lower-cased; it is
\* also the end reason of the record.
C28_EndClassified ==
  [][endOfCall =>
       /\ history' # << >>
       /\ history'[1].EndReason = firstNonEmpty(Causes[last'.ev])
       /\ history'[1].State =
            classOf({ToLower(firstNonEmpty(Causes[last'.ev]))})]_vars

\* a call has ended on a hangup whose cause text says busy, whose cause is
\* 404 and whose dial status says congestion: it is recorded as no-answer
C28_Witness ==
  /\ last.op = "event"
  /\ last.ev \in EndEvents
  /\ Causes[last.ev] = <<UserBusy, Cause404, StatusCongestion>>
  /\ history # << >>
  /\ history[1].End = last.t
  /\ history[1].State = vNoAnswer

\* the state the families give to a status
familyState(status) ==
  IF status \in InUseStatuses THEN vInUse
  ELSE IF status \in ConnectedStatuses THEN vConnected
  ELSE vDisconnected

\* C29: for a presence event the computed state is in-use whenever the count
\* of active channels is greater than zero; otherwise every status of the
\* in-use family gives in-use, every status of the connected family gives
\* connected, every status of the disconnected family gives disconnected, and
\* a status of no family gives disconnected.
C29_StateByFamily ==
  pure.fn = "presenceStateFor" =>
    pure.out = IF Atoi(pure.arg[2]).ok /\ Atoi(pure.arg[2]).n > 0
                 THEN vInUse ELSE familyState(pure.arg[1])

\* the value an event has for a field, under any spelling of its key
valueOf(event, keys) ==
  LET named == {k \in DOMAIN event :
                  \E i \in 1..Len(keys) : ToLower(k) = ToLower(keys[i])}
  IN  IF named = {} THEN Empty ELSE event[CHOOSE k \in named : TRUE]

\* the value an event has under a key spelled exactly so
valueAt(event, key) == IF key \in DOMAIN event THEN event[key] ELSE Empty

\* the first value of a sequence that is not empty
firstOf(values) ==
  IF \A i \in 1..Len(values) : values[i] = Empty THEN Empty
  ELSE values[CHOOSE i \in 1..Len(values) :
                /\ values[i] # Empty
                /\ \A j \in 1..(i - 1) : values[j] = Empty]

\* the first identifier of an event, in the precedence of the link key
firstID(event) ==
  firstOf([i \in 1..6 |-> valueOf(event, IdKeyTables[i])])

\* the channel fields of an event under any spelling, and spelled as in the
\* code
anyChannels(event) == [j \in 1..3 |-> valueOf(event, <<AnyChannelKeys[j]>>)]
exactChannels(event) == [j \in 1..3 |-> valueAt(event, AnyChannelKeys[j])]

\* C30, as stated: the link key of an event is the first non-empty of
\* linked-id, destination-linked-id, source-linked-id, unique-id,
\* destination-unique-id and source-unique-id, each under any spelling of its
\* key, and only if all are empty the channel name: channel, then destination
\* channel, then source channel.
C30_AsStated ==
  pure.fn = "linkedIDFor" =>
    pure.out = IF firstID(pure.arg) # Empty THEN firstID(pure.arg)
               ELSE firstOf(anyChannels(pure.arg))

\* C30, amended: as above for the identifiers, so that an event with a
\* linked-id has it as its link key whatever else it carries; among the
\* channel fields, those whose key is spelled as in the code (Channel,
\* DestChannel, SrcChannel) come before those spelled otherwise.
C30_LinkKeyPrecedence ==
  pure.fn = "linkedIDFor" =>
    /\ valueOf(pure.arg, LinkedidKeys) # Empty =>
          pure.out = valueOf(pure.arg, LinkedidKeys)
    /\ pure.out = IF firstID(pure.arg) # Empty THEN firstID(pure.arg)
                  ELSE IF firstOf(exactChannels(pure.arg)) # Empty
                    THEN firstOf(exactChannels(pure.arg))
                  ELSE firstOf(anyChannels(pure.arg))

\* linkedIDFor has been applied to an event that carries the six identifiers
\* under lower-case keys: the link key is the linked-id
C30_Witness ==
  /\ pure.fn = "linkedIDFor"
  /\ \A i \in 1..6 : ToLower(IdKeyTables[i][1]) \in DOMAIN pure.arg
  /\ pure.out = IdValues[1]

\* C21: a LoadCDR on a path that does not exist returns zero records and no
\* error, and leaves History, Active, Presence and the updated timestamp as
\* they were (and signals no subscriber).
C21_MissingFileNoError ==
  [][last'.op = "missing" =>
       /\ lastLoad'.n = 0
       /\ ~lastLoad'.err
       /\ history' = history
       /\ active' = active
       /\ presence' = presence
       /\ updated' = updated
       /\ chans' = chans]_vars

\* LoadCDR has returned from a missing path, after an import and events that
\* left History, Active and Presence non-empty
C21_Witness ==
  /\ last.op = "missing"
  /\ lastLoad = [n |-> 0, err |-> FALSE]
  /\ history # << >>
  /\ active # EmptyMap
  /\ presence # EmptyMap
  /\ updated > ZeroTime

\* the row is whole, parses and ends within the retention at time t
rowIsValid(row, t) ==
  /\ ~row.csvErr
  /\ row.cols >= 17
  /\ row.start >= 0
  /\ row.end >= 0
  /\ parseCDRTime(row.end, t).ts >= t - Retention

\* C20, as stated: when LoadCDR has run on a file, it has not failed, and
\* History holds a record for every row of the file that is whole, parses and
\* ends within the retention (as many records with that end as there are such
\* rows, up to MaxHistory in all), whatever other rows the file has: rows the
\* CSV reader fails on, rows with timestamps out of the layout, short rows.
C20_MalformedSkipped ==
  last.op = "load" =>
    /\ ~lastLoad.err
    /\ \A j \in 1..Len(last.file) :
         rowIsValid(last.file[j], last.t) =>
           \E i \in 1..Len(history) :
             history[i] = rowRecord(last.file[j], last.t)
    /\ Cardinality({j \in 1..Len(last.file) : rowIsValid(last.file[j], last.t)})
         <= MaxHistory
         => Len(history)
              = Cardinality({j \in 1..Len(last.file) : rowIsValid(last.file[j], last.t)})

\* C3, as stated: every call in Active has at least one leg.
C3_LegsNonEmpty == \A k \in DOMAIN active : active[k].channels # {}

\* C8, as stated: a dial-begin event for a link key with no active call
\* creates exactly one active call for the key, in state dialing, from the
\* caller id (else the peer of the source channel) to the first target of
\* the dial string (else the peer of the destination channel).
C8_AsStated ==
  [][(/\ nEvents' = nEvents + 1
      /\ \/ Fields[last'.ev].type = tDialbegin
         \/ Fields[last'.ev].type = tDial /\ Fields[last'.ev].subEvent = vBegin
      /\ Fields[last'.ev].linkedID \notin DOMAIN active)
     => LET key == Fields[last'.ev].linkedID
        IN  /\ DOMAIN active' = DOMAIN active \cup {key}
            /\ \A k \in DOMAIN active : active'[k] = active[k]
            /\ active'[key].State = vDialing
            /\ active'[key].From = Carried[last'.ev].dialFrom
            /\ active'[key].To = Carried[last'.ev].dialTo]_vars

\* C8: a dial-begin event for a link key with no active call creates exactly
\* one active call for the key, in state dialing, whose parties are the
\* caller id and the first dial target reduced to dialable characters, each
\* replaced by the likewise reduced peer of the source or destination channel
\* when nothing remains of it.
C8_DialBeginCreates ==
  [][(/\ nEvents' = nEvents + 1
      /\ \/ Fields[last'.ev].type = tDialbegin
         \/ Fields[last'.ev].type = tDial /\ Fields[last'.ev].subEvent = vBegin
      /\ Fields[last'.ev].linkedID \notin DOMAIN active)
     => LET key == Fields[last'.ev].linkedID
        IN  /\ DOMAIN active' = DOMAIN active \cup {key}
            /\ \A k \in DOMAIN active : active'[k] = active[k]
            /\ active'[key].State = vDialing
            /\ active'[key].From = Fields[last'.ev].dialFrom
            /\ active'[key].To = Fields[last'.ev].dialTo]_vars

\* a dial-begin with a caller id that is not clean has created the call
C8_Witness ==
  /\ nEvents = 1
  /\ Fields[last.ev].type \in {tDialbegin, tDial}
  /\ Carried[last.ev].caller = NumDirty
  /\ DOMAIN active = {L1}
  /\ active[L1].State = vDialing
  /\ active[L1].From = <<"2", "6">>

(***************************************************************************)
(* Properties of the change notifier                                       *)
(***************************************************************************)
\* C5, as stated: every operation that changes Active, History or a Presence
\* record leaves a pending signal on the sink of every registered subscriber.
C5_AsStated ==
  [][<<active, history, presence>>' # <<active, history, presence>>
     => \A id \in subs' : chans'[id].buf = 1]_vars

\* C7: a presence event whose computed (state, detail) pair equals the stored
\* pair of its identity leaves the presence records and every sink as they
\* were; any other presence event with an identity stores the pair with the
\* time of the event and leaves a pending signal on every registered sink.
C7_PresenceDeduplicated ==
  [][(/\ nEvents' = nEvents + 1
      /\ Fields[last'.ev].presence
      /\ Fields[last'.ev].presID.ok)
     => LET f      == Fields[last'.ev]
            id     == f.presID.id
            stored == /\ id \in DOMAIN presence
                      /\ presence[id].State = f.presState[1]
                      /\ presence[id].Detail = f.presState[2]
        IN  /\ stored => presence' = presence /\ chans' = chans
            /\ ~stored =>
                 /\ presence'[id] = [ID |-> id, State |-> f.presState[1],
                                     Detail |-> f.presState[2], Updated |-> now]
                 /\ \A sub \in subs : chans'[sub].buf = 1]_vars

\* a repeated presence event has been folded at a later time than the stored
\* record's, which kept its time, and the registered sink is still empty
C7_Witness ==
  /\ last.op = "event"
  /\ Fields[last.ev].presence
  /\ Fields[last.ev].presID.ok
  /\ Fields[last.ev].presID.id \in DOMAIN presence
  /\ presence[Fields[last.ev].presID.id].State = Fields[last.ev].presState[1]
  /\ presence[Fields[last.ev].presID.id].Updated < last.t
  /\ subs # {}
  /\ \A sub \in subs : chans[sub].buf = 0

\* C12: a sink is closed exactly when it is out of the registry; a closed
\* sink stays closed and out of the registry; the step that closes a sink
\* removes that sink and no other from the registry and leaves every other
\* sink as it was; and no call of a cancel function panics, so that a second
\* call on a closed sink changes nothing.
C12_UnsubscribeIdempotent ==
  /\ [](\A id \in DOMAIN chans : chans[id].closed <=> id \notin subs)
  /\ [][\A id \in DOMAIN chans :
          /\ chans[id].closed => (chans'[id].closed /\ id \notin subs')
          /\ (~chans[id].closed /\ chans'[id].closed)
               => /\ subs' = subs \ {id}
                  /\ \A o \in DOMAIN chans \ {id} : chans'[o] = chans[o]]_vars
  /\ [][crashed' => (crashed \/ nEvents' = nEvents + 1)]_vars

\* one subscriber has cancelled with a signal pending on its sink, another
\* is registered and its sink is open
C12_Witness ==
  \E a \in DOMAIN chans : \E b \in DOMAIN chans :
     /\ chans[a].closed /\ a \notin subs /\ chans[a].buf = 1
     /\ b \in subs /\ ~chans[b].closed

(***************************************************************************)
(* Properties of the service under concurrent goroutines                   *)
(***************************************************************************)
\* C4, as stated: under every interleaving of HandleAMIEvent with a
\* subscriber's cancel function, no signal is sent on a closed sink: the
\* notify loop never panics.
C4_NoSendOnClosedSink == ~(crashed /\ hnd.pc = "notify")

\* C6, as stated: once a state-changing event has been committed while a
\* subscriber that takes a Snapshot at each signal is registered, the
\* subscriber eventually holds a Snapshot taken at or after that change,
\* unless it has left or the process is gone.
C6_NoLostUpdate ==
  \A v \in 1..MaxEvents :
    (ws.pc \in {"write", "loop"} /\ ver = v)
      ~> (ws.seen >= v \/ ws.pc = "done" \/ crashed)

\* C9: every Snapshot is what Snapshot gives in the tracked state left by
\* some completed critical section of HandleAMIEvent or LoadCDR, or in the
\* state of the new service.
C9_SnapshotAtomic ==
  \A i \in 1..Len(ws.snap) : \E c \in commits : ws.snap[i] = snapshotOf(c)

\* the client holds a Snapshot with a history record while HandleAMIEvent
\* is between its switch and its commit, the service state being one that no
\* completed critical section has left
C9_Witness ==
  /\ ws.snap # << >>
  /\ ws.snap[1].History # << >>
  /\ mu = "handler"
  /\ hnd.pc = "commit"
  /\ \A c \in commits : snapshotOf(svc) # snapshotOf(c)

\* C13: every sink holds no or one pending signal; the turn of the notify
\* loop that finds the slot of its sink full leaves the sink as it was; and
\* while HandleAMIEvent is in the notify loop its next turn can always be
\* taken, whatever the subscribers have or have not read.
C13_OneSlotNonBlocking ==
  /\ [](\A id \in DOMAIN chans : chans[id].buf \in {0, 1})
  /\ []((hnd.pc = "notify" /\ ~crashed) => ENABLED H_Notify)
  /\ [][\A id \in DOMAIN chans :
          (/\ hnd.pc = "notify"
           /\ id \in hnd.targets
           /\ id \notin hnd'.targets
           /\ chans[id].buf = 1) => chans'[id] = chans[id]]_vars

\* HandleAMIEvent is in the notify loop with an open sink to signal whose
\* slot still holds the signal of an earlier event, the client not reading
C13_Witness ==
  /\ hnd.pc = "notify"
  /\ ~crashed
  /\ ws.pc = "loop"
  /\ ws.id \in hnd.targets
  /\ chans[ws.id].buf = 1
  /\ ~chans[ws.id].closed

\* the text frames among the frames written
textFrames(out) == Cardinality({i \in 1..Len(out) : out[i] = OpText})

\* C16: the client's sink is registered when a frame is written to it; the
\* first frame written is a text frame; every text frame carries the Snapshot
\* of the service state at its writing; and the text frames written are one
\* for the connection and one for each signal taken from the sink: as many
\* as signals plus one while the handler waits in its loop, as many as
\* signals while the frame of a signal (or the first frame) is being written,
\* and one of the two once the handler has returned.
C16_FramePerSignal ==
  /\ [](ws.out # << >> => ws.out[1] = OpText)
  /\ [](ws.pc = "loop" => textFrames(ws.out) = ws.signals + 1)
  /\ [](ws.pc = "write" => textFrames(ws.out) = ws.signals)
  /\ [](ws.pc = "done" => textFrames(ws.out) \in {ws.signals, ws.signals + 1})
  /\ [][ws'.out # ws.out
          => /\ ws.id \in subs
             /\ ~chans[ws.id].closed
             /\ \E op \in {OpText, OpPing} : ws'.out = Append(ws.out, op)
             /\ textFrames(ws'.out) > textFrames(ws.out)
                  => ws'.snap = <<snapshotOf(svc)>>]_vars

\* the client has had its first frame, a ping, and the frame of one signal
\* that shows a call, and waits for the next
C16_Witness ==
  /\ ws.pc = "loop"
  /\ ws.out = <<OpText, OpPing, OpText>>
  /\ ws.signals = 1
  /\ ws.snap[1].Active # {}

\* C18: of every frame written, the first byte is 0x80 plus the low four
\* bits of the opcode; the second byte is below 128 (no mask bit); for a
\* length up to 125 the header is these two bytes and the second is the
\* length; for a length from 126 to 65535 the second byte is 126 and two more
\* bytes follow that read big-endian as the length; for a longer payload the
\* second byte is 127 and eight more bytes follow that read big-endian as the
\* length; and the payload follows as it was given, nothing following when
\* it is empty.
C18_FrameEncoding ==
  ws.wire.header # << >> =>
    LET h == ws.wire.header
        n == ws.wire.payload.len
    IN  /\ h[1] = 128 + (ws.wire.opcode % 16)
        /\ h[2] < 128
        /\ \A i \in 1..Len(h) : h[i] \in 0..255
        /\ n <= 125 => Len(h) = 2 /\ h[2] = n
        /\ (n >= 126 /\ n <= 65535)
             => Len(h) = 4 /\ h[2] = 126 /\ h[3] * 256 + h[4] = n
        /\ n > 65535
             => /\ Len(h) = 10 /\ h[2] = 127
                /\ h[3] = 0 /\ h[4] = 0 /\ h[5] = 0 /\ h[6] = 0
                /\ ((h[7] * 256 + h[8]) * 256 + h[9]) * 256 + h[10] = n
        /\ ws.wire.body = IF n = 0 THEN << >> ELSE <<ws.wire.payload>>

\* a text frame of 130 bytes has been written with the two-byte length 0, 130
C18_Witness ==
  /\ ws.wire.opcode = 1
  /\ ws.wire.payload.len = 130
  /\ ws.wire.header = <<129, 126, 0, 130>>

\* the request breaks the handshake in its headers
breaksHeaders(req) ==
  \/ req.connection = hdrClose
  \/ req.upgrade = hdrH2c
  \/ req.version = hdrVersion8
  \/ req.key = Empty

\* C17, as stated: a request with a wrong Connection/Upgrade pair, a version
\* other than 13, no handshake key or a response writer that cannot be
\* hijacked is answered with a 4xx status, and handling it registers no
\* subscriber and leaves the sinks, the served connection and the tracked
\* call state as they were.
C17_AsStated ==
  /\ []((breaksHeaders(ws.req) \/ ~ws.req.hijacker) /\ ws.req \in Requests
          => ws.status \in 400..499)
  /\ [][(ws'.req \in BadRequests /\ <<ws.req, ws.status>> # <<ws'.req, ws'.status>>)
          => /\ UNCHANGED <<subs, nextID, chans, active, history, presence, updated>>
             /\ ws' = [ws EXCEPT !.req = ws'.req, !.status = ws'.status]]_vars

\* C17: a request with a wrong Connection/Upgrade pair, a version other than
\* 13 or no handshake key is answered with status 400; a request with none
\* of these faults whose response writer cannot be hijacked is answered with
\* status 500; and handling any of them registers no subscriber and leaves
\* the sinks, the served connection and the tracked call state as they were.
C17_HandshakeRejected ==
  /\ [](breaksHeaders(ws.req) /\ ws.req \in Requests
          => ws.status = StatusBadRequest)
  /\ [](~breaksHeaders(ws.req) /\ ~ws.req.hijacker /\ ws.req \in Requests
          => ws.status = StatusInternalServerError)
  /\ [][(ws'.req \in BadRequests /\ <<ws.req, ws.status>> # <<ws'.req, ws'.status>>)
          => /\ UNCHANGED <<subs, nextID, chans, active, history, presence, updated>>
             /\ ws' = [ws EXCEPT !.req = ws'.req, !.status = ws'.status]]_vars

\* a request without handshake key has been refused while a client is being
\* served, which stays registered and in its loop
C17_Witness ==
  /\ ws.req = [PlainRequest EXCEPT !.key = Empty]
  /\ ws.status = StatusBadRequest
  /\ ws.pc = "loop"
  /\ ws.out # << >>
  /\ subs = {ws.id}
  /\ active # EmptyMap

(***************************************************************************)
(* Properties of the connection manager                                    *)
(***************************************************************************)
\* C10, as stated: once the context is cancelled, in whichever phase the
\* connection manager is, the socket is closed and RunAMI eventually returns.
C10_CancelReturns == ami.ctx ~> (ami.pc = "returned" /\ ami.conn # "open")

\* C11: RunAMI has returned only when the context is cancelled; when a
\* connection attempt has ended and the context is not cancelled, RunAMI goes
\* into the wait of the retry delay and from it to a new call of
\* runAMIConnection, unless the context is cancelled meanwhile; and an ended
\* attempt is eventually followed by a new one or by a cancellation.
C11_RetriesAfterFailure ==
  /\ [](ami.pc = "returned" => ami.ctx)
  /\ [][(ami.pc = "after" /\ ~ami.ctx /\ ami'.pc # "after")
          => ami'.pc = "delay"]_vars
  /\ [][(ami.pc = "delay" /\ ami'.pc # "delay")
          => (ami'.pc = "start" \/ (ami.ctx /\ ami'.pc = "returned"))]_vars
  /\ ((ami.pc = "after" /\ ~ami.ctx) ~> (ami.pc = "start" \/ ami.ctx))

\* C15, as stated: in the login wait, a block whose Response is Success lets
\* the attempt go on, and a block whose Response is anything else, or that
\* has no Response, ends the attempt as a login failure.
C15_AsStated ==
  [][(ami.pc = "waitLogin" /\ ami.inbox # << >> /\ ami'.inbox = << >>)
       => IF ResponseOf[ami.inbox[1]] = AMISuccess
            THEN ami'.pc = "inventory" /\ ami'.conn = "open"
            ELSE ami'.pc = "after" /\ ami'.conn = "closed"]_vars

\* C15: in the login wait, a block whose Response is Success in any letter
\* case lets the attempt go on; a block with any other Response ends the
\* attempt as a login failure; a block with no Response is passed over and
\* the wait goes on with the next block on the same socket.
C15_LoginReply ==
  [][(ami.pc = "waitLogin" /\ ami.inbox # << >> /\ ami'.inbox = << >>)
       => LET resp == ResponseOf[ami.inbox[1]]
          IN  IF resp = Empty
                THEN ami'.pc = "waitLogin" /\ ami'.conn = ami.conn
              ELSE IF ToLower(resp) = ToLower(AMISuccess)
                THEN ami'.pc = "inventory" /\ ami'.conn = "open"
              ELSE ami'.pc = "after" /\ ami'.conn = "closed"]_vars

\* the second block of the first connection was read in the login wait and
\* the wait goes on
C15_Witness ==
  /\ ami.pc = "waitLogin"
  /\ ami.dials = 1
  /\ ami.sent = 2
  /\ ami.inbox = << >>
  /\ ami.conn = "open"

\* C14, as stated: after a successful login the connection attempt goes on to
\* the event read loop on the same socket, whether or not the inventory
\* request could be written.
C14_InventoryNonFatal ==
  [][(ami.pc = "inventory" /\ ami'.pc # "inventory")
       => (ami'.pc = "read" /\ ami'.conn = ami.conn)]_vars

\* the remote closed the first connection, the context is not cancelled and
\* RunAMI is dialing for the last time the model allows
C11_Witness ==
  /\ ami.pc = "dialing"
  /\ ami.dials = MaxDials
  /\ ami.peer = "gone"
  /\ ~ami.ctx

(***************************************************************************)
(* Properties of events without a link key, of the import and of the       *)
(* frame of an event                                                       *)
(***************************************************************************)
\* the step folds an event that is no presence event and has no link key
foldsBare ==
  /\ nEvents' = nEvents + 1
  /\ Fields[last'.ev].linkedID = Empty
  /\ ~Fields[last'.ev].presence

\* the step folds an event with a link key right after such an event
foldsAfterBare ==
  /\ last.op = "event"
  /\ Fields[last.ev].linkedID = Empty
  /\ ~Fields[last.ev].presence
  /\ nEvents' = nEvents + 1
  /\ Fields[last'.ev].linkedID # Empty

\* C31: an event that is no presence event and from which no link key can
\* be resolved is skipped: Active, History, Presence and the updated
\* timestamp are unchanged and no subscriber is signalled; the event that
\* follows is folded as it would be had the skipped one never come.
C31_NoKeySkipped ==
  [][/\ foldsBare =>
          /\ active' = active
          /\ history' = history
          /\ presence' = presence
          /\ updated' = updated
          /\ chans' = chans
          /\ crashed' = crashed
     /\ foldsAfterBare =>
          /\ tracked([active |-> active', history |-> history',
                      presence |-> presence', updated |-> updated'])
               = tracked(foldEvent(svc, Fields[last'.ev], now))
          /\ ~crashed']_vars

\* a hangup with a blank linked-id has been skipped while a call is active, a
\* presence is known and a subscriber has no signal pending
C31_Witness ==
  /\ last.op = "event"
  /\ Fields[last.ev].type = tHangup
  /\ Fields[last.ev].linkedID = Empty
  /\ active # EmptyMap
  /\ updated < last.t
  /\ subs # {}
  /\ \A sub \in subs : chans[sub].buf = 0

\* the rows of a file that LoadCDR at time t takes: whole, with timestamps
\* that parse, and ending within the retention
keptRows(file, t) == {j \in 1..Len(file) : rowKept(file[j], t)}

\* hist holds, newest end first, the records of count of the rows of file
\* that LoadCDR at time t takes, and none of the others ends later than those
holdsNewest(hist, file, t, count) ==
  /\ Len(hist) = count
  /\ IsSortedNewestFirst(hist)
  /\ \E pick \in [1..count -> keptRows(file, t)] :
       /\ \A i, j \in 1..count : i # j => pick[i] # pick[j]
       /\ \A i \in 1..count : hist[i] = rowRecord(file[pick[i]], t)
       /\ \A j \in keptRows(file, t) \ {pick[i] : i \in 1..count} :
            rowRecord(file[j], t).End <= hist[count].End

\* C32: after a successful LoadCDR, History consists of exactly the imported
\* in-retention records, newest end first and truncated to MaxHistory, the
\* returned count is the length of History, and no record held before the
\* import, such as that of a call completed live, remains.
C32_ImportReplaces ==
  (last.op = "load" /\ ~lastLoad.err) =>
    /\ holdsNewest(history, last.file, last.t,
                   IF Cardinality(keptRows(last.file, last.t)) < MaxHistory
                     THEN Cardinality(keptRows(last.file, last.t)) ELSE MaxHistory)
    /\ lastLoad.n = Len(history)
    /\ \A i \in 1..Len(history) : history[i].ID = TrimSpace(CDRUid)

\* a file of more whole in-retention rows than History may hold, with
\* different ends, has been imported after a call had begun and ended
C32_Witness ==
  /\ last.op = "load"
  /\ ~lastLoad.err
  /\ Cardinality(keptRows(last.file, last.t)) = MaxHistory + 1
  /\ \E i, j \in 1..Len(last.file) : last.file[i].end # last.file[j].end
  /\ Len(history) = MaxHistory
  /\ lastLoad.n = MaxHistory
  /\ nEvents >= 2
  /\ active = EmptyMap

\* the distance between two times
distance(t, u) == IF t < u THEN u - t ELSE t - u

\* C33: for each CDR timestamp that parses, of its local-timezone reading
\* and its UTC reading the one whose distance to the current time is
\* strictly smaller is kept; when both distances are equal the
\* local-timezone reading is kept.
C33_CloserReadingKept ==
  (pure.fn = "parseCDRTime" /\ pure.out.ok) =>
    pure.out.ts =
      IF distance(pure.arg[2], pure.arg[1])
           < distance(pure.arg[2], pure.arg[1] - LocalOffset)
        THEN pure.arg[1]
        ELSE pure.arg[1] - LocalOffset

(***************************************************************************)
(* Properties of the read loop of the connection manager                   *)
(***************************************************************************)
\* the step takes the first unread block off the socket in the read loop
readsBlock ==
  /\ ami.pc = "read"
  /\ ami.inbox # << >>
  /\ Len(ami'.inbox) < Len(ami.inbox)

\* the service after the step is what HandleAMIEvent makes of it on event,
\* and the sinks have the signal of a change
foldedOnce(event) ==
  /\ tracked([active |-> active', history |-> history', presence |-> presence',
              updated |-> updated'])
       = tracked(foldEvent(svc, Fields[event], now))
  /\ chans' = IF foldEvent(svc, Fields[event], now).changed
                THEN notify(chans, subs) ELSE chans

\* the step is one of the attempt that has logged in: the read loop is
\* entered from the inventory request only, and that from a login wait that
\* has read a Response of Success
entersAfterLogin ==
  /\ (ami'.pc = "read" /\ ami.pc # "read") => ami.pc = "inventory"
  /\ (ami'.pc = "inventory" /\ ami.pc # "inventory") =>
       /\ ami.pc = "waitLogin"
       /\ ami.inbox # << >>
       /\ EqualFold(ResponseOf[Head(ami.inbox)], AMISuccess)
  /\ ami'.dials # ami.dials => ami'.pc = "dialing"

\* C34: within one connection attempt no event is folded into state before
\* the login response of the attempt was classified as success; after login
\* every block with a non-empty Event field is handed to HandleAMIEvent
\* once, in the order read, and a block without an Event field changes no
\* state.
C34_EventsAfterLogin ==
  [][/\ entersAfterLogin
     /\ (<<svcVars, chans>>' # <<svcVars, chans>> /\ subs' = subs) =>
          (readsBlock /\ hasEvent(EventOf[Head(ami.inbox)]))
     /\ readsBlock =>
          /\ ami'.inbox = Tail(ami.inbox)
          /\ IF hasEvent(EventOf[Head(ami.inbox)])
               THEN foldedOnce(EventOf[Head(ami.inbox)])
               ELSE UNCHANGED <<svcVars, chans>>]_vars

\* in the read loop of the first connection the channel-created event and
\* then the hangup have been folded, and a response waits unread: the call
\* is in History and the subscriber has a signal
C34_Witness ==
  /\ ami.pc = "read"
  /\ ami.dials = 1
  /\ ami.inbox = <<"success">>
  /\ active = EmptyMap
  /\ Len(history) = 1
  /\ history[1].ID = L1
  /\ \E sub \in subs : chans[sub].buf = 1

\* where runAMIConnection is while it holds a socket
HoldingSocket == {"banner", "login", "waitLogin", "inventory", "read"}

\* C35: one RunAMI worker has at most one socket open at any time: a socket
\* is open only inside the attempt that dialed it, and a new connection is
\* dialed only after the socket of the previous attempt has been closed; so
\* its events are folded one at a time, in the order they were read.
C35_OneSocket ==
  [][/\ ami.conn = "open" => ami.pc \in HoldingSocket
     /\ ami'.dials # ami.dials =>
          (ami'.dials = ami.dials + 1 /\ ami.conn # "open" /\ ami'.conn # "open")
     /\ (ami'.conn = "open" /\ ami.conn # "open") => ami.pc = "dialing"
     /\ <<svcVars>>' # <<svcVars>> =>
          (ami.pc = "read" /\ ami.inbox # << >>
             /\ ami'.inbox = Tail(ami.inbox) /\ ami'.dials = ami.dials)]_vars

\* the second connection is being dialed: the socket of the first, on which
\* a channel-created event was read and folded, is closed
C35_Witness ==
  /\ ami.pc = "dialing"
  /\ ami.dials = 2
  /\ ami.conn = "closed"
  /\ L1 \in DOMAIN active

\* the step folds a presence event
foldsPresence ==
  /\ nEvents' = nEvents + 1
  /\ Fields[last'.ev].presence

\* C36: a presence event never adds, removes or modifies an active call, its
\* updated time included, and never adds a History record, whichever
\* identifier fields the event carries.
C36_PresenceLeavesCalls ==
  [][foldsPresence =>
       /\ active' = active
       /\ \A i \in 1..Len(history') : \E j \in 1..Len(history) :
            history'[i] = history[j]]_vars

\* the records of hist that are not among those of old
addedTo(old, hist) ==
  {hist[i] : i \in 1..Len(hist)} \ {old[j] : j \in 1..Len(old)}

\* the calls of other link keys than key are in calls as they are in old
othersKept(old, calls, key) ==
  \A k \in (DOMAIN old \cup DOMAIN calls) \ {key} :
     k \in DOMAIN old /\ k \in DOMAIN calls /\ calls[k] = old[k]

\* C38: an event resolved to link key K changes at most the active call
\* whose id is K: every call of another link key stays in Active or out of
\* it, with its legs, parties, state, start and updated times, and the only
\* History record the event can add carries id K.
C38_OnlyOwnCall ==
  [][nEvents' = nEvents + 1 =>
       /\ othersKept(active, active', Fields[last'.ev].linkedID)
       /\ \A rec \in addedTo(history, history') :
            rec.ID = Fields[last'.ev].linkedID]_vars

\* the hangup of the second call has moved it to History at a time after the
\* first call, still active, was last touched
C38_Witness ==
  /\ last.op = "event"
  /\ Fields[last.ev].type = tHangup
  /\ Fields[last.ev].linkedID = L2
  /\ L1 \in DOMAIN active
  /\ L2 \notin DOMAIN active
  /\ active[L1].Updated < last.t
  /\ history # << >>
  /\ history[1].ID = L2
  /\ history[1].End = last.t

\* the calls with their legs, parties and states, without their times
shapeOf(calls) ==
  [k \in DOMAIN calls |->
     [channels |-> calls[k].channels, From |-> calls[k].From, To |-> calls[k].To,
      State |-> calls[k].State]]

\* the step folds an event that leaves the active calls, History and
\* Presence as they were
foldsIdle ==
  /\ nEvents' = nEvents + 1
  /\ shapeOf(active') = shapeOf(active)
  /\ history' = history
  /\ presence' = presence

\* C39: a HandleAMIEvent that leaves the active calls (their set, leg sets,
\* parties and states), History and Presence exactly as they were delivers
\* no signal to any subscriber and advances neither the updated timestamp of
\* the snapshot nor the updated time of any call.
C39_NoSpuriousSignal ==
  [][foldsIdle =>
       /\ chans' = chans
       /\ updated' = updated
       /\ active' = active]_vars

(***************************************************************************)
(* Properties of the end of a WebSocket handler and of the state lock      *)
(***************************************************************************)
\* the handlers that have subscribed and not returned
liveHandlers == IF ws.pc \in {"write", "loop"} THEN {ws.id} ELSE {}

\* C37: when a WebSocket handler has returned, for whatever reason, its sink
\* is out of the subscriber registry and closed and its connection is
\* closed; the registry holds no sink of a handler that has terminated: the
\* registered sinks are those of the handlers that are past their
\* subscription and have not returned.
C37_SinkEndsWithHandler ==
  /\ ws.pc = "done" =>
       /\ ws.id \notin subs
       /\ chans[ws.id].closed
       /\ ws.conn = "closed"
  /\ subs = liveHandlers
  /\ Cardinality(subs) = Cardinality(liveHandlers)
  /\ \A id \in subs : ~chans[id].closed /\ ws.conn = "open"

\* the handler has returned after it took a signal and wrote the snapshot of
\* an active call
C37_Witness ==
  /\ ws.pc = "done"
  /\ ws.signals > 0
  /\ Len(ws.out) > 1
  /\ ws.conn = "closed"
  /\ active # EmptyMap

\* C40: concurrent HandleAMIEvent, Snapshot, Subscribe, unsubscribe and
\* LoadCDR calls all complete, whatever their interleaving on the state lock:
\* a HandleAMIEvent that has started returns, a LoadCDR that has started
\* returns, and a handler that goes for a Snapshot gets it, also when the
\* subscriber unsubscribes while the event is folded and signalled.
C40_AllComplete ==
  /\ (hnd.pc # "idle") ~> (hnd.pc = "idle")
  /\ (ldr.pc # "idle") ~> (ldr.pc = "idle")
  /\ (ws.pc = "write") ~> (ws.pc \in {"loop", "done"})

============================================================================
